---- MODULE Spec2Model ----
(***************************************************************************)
(* Model of the access-log analysis server: the IP database lifecycle and  *)
(* the location resolver (server/ipdb.js), the ingestion pass and the      *)
(* aggregation of /api/metrics and /api/traffic (server/index.js).         *)
(*                                                                         *)
(* Asynchronous functions are cut at the awaits that wait for real I/O:    *)
(* the code between two such awaits runs without interleaving (one         *)
(* event-loop turn, with the promise continuations it triggers), so it is  *)
(* one action.                                                             *)
(***************************************************************************)
EXTENDS Integers, Sequences, FiniteSets, TLC

\* ------------------------------------------------------------------ bounds
MaxDepth == 2
MaxLines == 1
MaxTicks == 3
MaxLogs == 3
MaxUaFrags == 3
MaxRefFrags == 2
MaxFaults == 1
MaxParses == 2
MaxLoads == 2

\* --------------------------------------------------------------- constants
\* null / undefined: an optional value is <<>> or <<v>>
Null == <<>>
Some(v) == <<v>>

AllEditions == {"GeoLite2-City", "GeoLite2-Country"}
\* IPDB_FILE = data/ipdb/GeoLite2-City.mmdb: the file the resolver opens
IPDB_FILE == "GeoLite2-City"
CACHE_DURATION == 24 * 60 * 60 * 1000
\* the clock of the model advances in half TTL windows
TickMs == CACHE_DURATION \div 2

\* NGINX_LOG_PATHS: the two default paths
NGINX_LOG_PATHS == <<"./logs/access.log", "./logs/access.log.1">>

\* origins of the log lines; Unlisted has no entry in any database
IPs == {"1.1.1.1", "10.0.0.1"}
Unlisted == {"10.0.0.1"}
\* origins of a country for which the databases list no subdivision and no
\* city: region and city of their location are undefined ("" here)
NoSubdivision == {"8.8.8.8"}
\* a log line of a pass: one that the regex rejects, or one with an origin
NoMatch == "garbage"
Lines == IPs \cup {NoMatch}

STARTUP == <<"startup", 0>>
REFRESH == <<"refresh", 0>>
Q(i) == <<"query", i>>
Slots == {Q(i) : i \in 1..MaxLines}
Procs == {STARTUP, REFRESH} \cup Slots

VARIABLES
  geoipConfig,   \* accountId, licenseKey, editionIds
  file,          \* data/ipdb/<edition>.mmdb: FMissing, FCorrupt or FOk
  remote,        \* the editions whose remote archive is newer than the local file
  dbInstance,    \* Null or Some(h): h is Cur when the handle was opened from the
                 \* database now in IPDB_FILE, Old when from one since replaced
  ipCache,       \* ip -> Null or Some([timestamp, data, db])
  clock,         \* Date.now()
  proc,          \* the asynchronous calls in flight
  pass,          \* the readAllLogs call in flight
  scheduled,     \* the weekly job is registered
  swapDone,      \* the job reopened the handle and cleared the cache after the
                 \* last replacement of IPDB_FILE
  request,       \* a GET /api/metrics or /api/traffic call: the lines read, the
                 \* records of readAllLogs and the response
  sample,        \* one record, and the tallies after the loop body counted it
  parse,         \* one line, and what each call of parseNginxLog on it returned
  dash           \* the dashboard: loading, error, and the two fetches of loadData

ipdbVars == <<geoipConfig, file, remote, dbInstance, ipCache, clock, proc, pass, scheduled,
              swapDone>>
aggVars == <<request, sample, parse, dash>>

\* -------------------------------------------------------------- helpers
Min(a, b) == IF a < b THEN a ELSE b

\* the states of a database file on disk
FMissing == "missing"
FCorrupt == "corrupt"
FOk == "ok"
FileStates == {FMissing, FCorrupt, FOk}

\* a handle, and the provenance of a cached location, relative to IPDB_FILE
Cur == "current"
Old == "old"

\* maxmind.open(path): succeeds on a readable database file
Openable(f) == f = FOk

\* lookup.get(ip) on handle h, and the location built from it (lines
\* 153-165); the databases agree on every listed origin
DbGet(h, ip) ==
  IF ip \in Unlisted THEN Null
  ELSE IF ip \in NoSubdivision THEN Some([region |-> "", city |-> ""])
  ELSE Some([region |-> "Region", city |-> "City"])

Idle == [pc |-> "idle", nd |-> 0, ctx |-> "", opened |-> Null,
         ip |-> "", now |-> 0, result |-> Null, queried |-> FALSE, prev |-> Null]

\* validateGeoIPConfig
ConfigValid ==
  /\ geoipConfig.accountId
  /\ geoipConfig.licenseKey
  /\ geoipConfig.editionIds # {}

\* the configurations of the model
Configs == { [accountId |-> TRUE, licenseKey |-> TRUE, editionIds |-> AllEditions],
             [accountId |-> TRUE, licenseKey |-> FALSE, editionIds |-> {IPDB_FILE}],
             [accountId |-> TRUE, licenseKey |-> TRUE, editionIds |-> {}] }

IpdbInit ==
  /\ geoipConfig \in Configs
  /\ file \in [AllEditions -> FileStates]
  /\ remote = {}
  /\ dbInstance = Null
  /\ ipCache = [ip \in IPs |-> Null]
  /\ clock = 0
  /\ proc = [p \in Procs |-> IF p = STARTUP THEN [Idle EXCEPT !.pc = "validate"] ELSE Idle]
  /\ pass = [pc |-> "idle", idx |-> 1, allLogs |-> <<>>, expected |-> <<>>, skipped |-> 0]
  /\ scheduled = FALSE
  /\ swapDone = FALSE

\* ------------------------------------------------- ipdb.js: ensure / fetch
\* the editions ensureIPDBDir reports: absent, or present and failing to open
MissingFiles == {e \in geoipConfig.editionIds : ~Openable(file[e])}

\* fs.unlink of the files that failed to open
Unlinked ==
  [e \in AllEditions |->
     IF e \in geoipConfig.editionIds /\ file[e] = FCorrupt THEN FMissing ELSE file[e]]

\* variant of Throw: queryIPLocation lets the exception out, and
\* parseNginxLog drops the record
ThrowRejects(p, r) ==
  CASE p = STARTUP -> [r EXCEPT !.pc = "failed", !.nd = 0]
    [] p = REFRESH -> Idle
    [] OTHER -> [r EXCEPT !.pc = "rejected", !.nd = 0, !.result = Null]

\* an exception reaches the caller of the outermost frame
Throw(p, r) ==
  CASE p = STARTUP -> [r EXCEPT !.pc = "failed", !.nd = 0]
    [] p = REFRESH -> Idle
    [] OTHER -> [r EXCEPT !.pc = "done", !.nd = 0, !.result = Null]

\* ensureIPDBDir returned to the outermost caller
AfterEnsure(procs, p, r) ==
  IF r.ctx = "ensure"
    THEN \* initIPDB: initDBInstance()
         IF dbInstance # Null
           THEN /\ proc' = [procs EXCEPT ![p] = [r EXCEPT !.pc = "ready"]]
                /\ scheduled' = TRUE
           ELSE /\ proc' = [procs EXCEPT ![p] = [r EXCEPT !.pc = "E_mkdir", !.ctx = "init"]]
                /\ UNCHANGED scheduled
    ELSE \* initDBInstance: maxmind.open(IPDB_FILE)
         /\ proc' = [procs EXCEPT ![p] = [r EXCEPT !.pc = "open"]]
         /\ UNCHANGED scheduled

\* downloadIPDB returned to the refresh job: dbInstance = null; initDBInstance()
AfterDownload(procs, p, r) ==
  /\ proc' = [procs EXCEPT ![p] = [r EXCEPT !.pc = "E_mkdir", !.ctx = "init", !.nd = 0]]
  /\ dbInstance' = Null
  /\ UNCHANGED scheduled

\* ensureIPDBDir, line 24: fs.mkdir resolved
EMkdir(p) ==
  /\ proc[p].pc = "E_mkdir"
  /\ proc' = [proc EXCEPT ![p].pc = "E_check"]
  /\ UNCHANGED <<aggVars, geoipConfig, file, remote, dbInstance, ipCache, clock, pass, scheduled, swapDone>>

\* ensureIPDBDir, lines 27-59: every edition checked; downloadIPDB when one is
\* missing, and downloadIPDB starts with ensureIPDBDir (line 65)
ECheck(p) ==
  /\ proc[p].pc = "E_check"
  /\ file' = Unlinked
  /\ IF MissingFiles # {}
       THEN /\ proc' = [proc EXCEPT ![p].pc = "E_mkdir", ![p].nd = Min(@ + 1, MaxDepth)]
            /\ UNCHANGED <<dbInstance, scheduled, swapDone>>
       ELSE IF proc[p].nd = 0
              THEN AfterEnsure(proc, p, proc[p]) /\ UNCHANGED dbInstance
              ELSE /\ proc' = [proc EXCEPT ![p].pc = "D_fetch"]
                   /\ UNCHANGED <<dbInstance, scheduled, swapDone>>
  /\ UNCHANGED <<aggVars, geoipConfig, remote, ipCache, clock, pass, swapDone>>

\* fs.rename(mmdbFile, filePath), line 102: the downloads of the editions in
\* done are in place; a newer IPDB_FILE makes every handle and every cached
\* location Old
Replaces(done) == IPDB_FILE \in done /\ IPDB_FILE \in remote
Demote(done, x) == IF Replaces(done) /\ x = Some(Cur) THEN Some(Old) ELSE x
DemoteEntry(done, x) ==
  IF Replaces(done) /\ x # Null /\ x[1].db = Cur THEN Some([x[1] EXCEPT !.db = Old]) ELSE x
DemoteProc(done, r) == [r EXCEPT !.opened = Demote(done, @), !.prev = Demote(done, @)]

\* the frame count after downloadIPDB returned: exact below MaxDepth
Unwound(nd) == IF nd = MaxDepth THEN {nd, nd - 1} ELSE {nd - 1}

\* downloadIPDB returned to the caller of the outermost ensureIPDBDir, or to
\* the job
AfterFetch(procs, p, r, db) ==
  IF r.nd > 0
    THEN \* the ensureIPDBDir below returns into its downloadIPDB: next fetch
         /\ proc' = [procs EXCEPT ![p] = r]
         /\ dbInstance' = db
         /\ UNCHANGED scheduled
    ELSE IF r.ctx = "download"
           THEN AfterDownload(procs, p, r)
           ELSE AfterEnsure(procs, p, r) /\ dbInstance' = db

\* downloadIPDB, lines 68-120: every edition is downloaded, the editions in
\* done succeed; Promise.all rejects unless all of them do
DFetch(p, done) ==
  /\ proc[p].pc = "D_fetch"
  /\ done \subseteq geoipConfig.editionIds
  /\ file' = [e \in AllEditions |-> IF e \in done THEN FOk ELSE file[e]]
  /\ remote' = remote \ done
  /\ ipCache' = [ip \in IPs |-> DemoteEntry(done, ipCache[ip])]
  /\ LET procs == [x \in Procs |-> DemoteProc(done, proc[x])] IN
     IF done = geoipConfig.editionIds
       THEN \E nd \in Unwound(proc[p].nd) :
              AfterFetch(procs, p, [procs[p] EXCEPT !.nd = nd], Demote(done, dbInstance))
       ELSE /\ proc' = [procs EXCEPT ![p] = Throw(p, procs[p])]
            /\ dbInstance' = Demote(done, dbInstance)
            /\ UNCHANGED scheduled
  /\ swapDone' = (swapDone /\ ~Replaces(done))
  /\ UNCHANGED <<aggVars, geoipConfig, clock, pass>>

\* ------------------------------------------- ipdb.js: open, query, startup
\* ipCache.set(ip, {timestamp: now, data: location}); db is the version of
\* the handle the location was read from
CacheSet(cache, ip, now, location, v) ==
  [cache EXCEPT ![ip] = Some([timestamp |-> now, data |-> location, db |-> v])]

\* variant of CacheHit: an entry of exactly CACHE_DURATION still answers
CacheHitInclusive(cache, ip, now) ==
  /\ cache[ip] # Null
  /\ now - cache[ip][1].timestamp <= CACHE_DURATION

\* queryIPLocation, lines 146-149: the cache answers
CacheHit(cache, ip, now) ==
  /\ cache[ip] # Null
  /\ now - cache[ip][1].timestamp < CACHE_DURATION

\* initDBInstance, line 128: maxmind.open(IPDB_FILE) reads the file
Open(p, ioOk) ==
  /\ proc[p].pc = "open"
  /\ IF ioOk /\ Openable(file[IPDB_FILE])
       THEN proc' = [proc EXCEPT ![p].pc = "assign", ![p].opened = Some(Cur)]
       ELSE proc' = [proc EXCEPT ![p] = Throw(p, proc[p])]
  /\ UNCHANGED <<aggVars, geoipConfig, file, remote, dbInstance, ipCache, clock, pass, scheduled, swapDone>>

\* initDBInstance, lines 128 and 134: dbInstance is assigned and returned, and
\* the caller goes on: initIPDB returns (the server schedules the job), the
\* job clears the cache (line 220), queryIPLocation looks the origin up
\* (lines 153-173)
Assign(p) ==
  /\ proc[p].pc = "assign"
  /\ dbInstance' = proc[p].opened
  /\ CASE p = STARTUP ->
            /\ proc' = [proc EXCEPT ![p].pc = "ready"]
            /\ scheduled' = TRUE
            /\ UNCHANGED <<ipCache, swapDone>>
       [] p = REFRESH ->
            /\ proc' = [proc EXCEPT ![p] = Idle]
            /\ ipCache' = [ip \in IPs |-> Null]
            /\ swapDone' = TRUE
            /\ UNCHANGED scheduled
       [] OTHER ->
            LET r == proc[p]
                result == DbGet(r.opened[1], r.ip) IN
            /\ proc' = [proc EXCEPT ![p].pc = "done", ![p].result = result, ![p].queried = TRUE]
            /\ ipCache' = IF result = Null THEN ipCache
                          ELSE CacheSet(ipCache, r.ip, r.now, result[1], r.opened[1])
            /\ UNCHANGED <<scheduled, swapDone>>
  /\ UNCHANGED <<aggVars, geoipConfig, file, remote, clock, pass>>

\* variant: the job is scheduled when initIPDB settles, fulfilled or rejected
StartupValidateSchedules ==
  /\ proc[STARTUP].pc = "validate"
  /\ IF ConfigValid
       THEN /\ proc' = [proc EXCEPT ![STARTUP].pc = "E_mkdir", ![STARTUP].ctx = "ensure"]
            /\ UNCHANGED scheduled
       ELSE /\ proc' = [proc EXCEPT ![STARTUP].pc = "failed"]
            /\ scheduled' = TRUE
  /\ UNCHANGED <<aggVars, geoipConfig, file, remote, dbInstance, ipCache, clock, pass, swapDone>>

\* initIPDB, lines 239-245: validateGeoIPConfig, then ensureIPDBDir
StartupValidate ==
  /\ proc[STARTUP].pc = "validate"
  /\ IF ConfigValid
       THEN proc' = [proc EXCEPT ![STARTUP].pc = "E_mkdir", ![STARTUP].ctx = "ensure"]
       ELSE proc' = [proc EXCEPT ![STARTUP].pc = "failed"]
  /\ UNCHANGED <<aggVars, geoipConfig, file, remote, dbInstance, ipCache, clock, pass, scheduled, swapDone>>

\* ------------------------------------------------ ipdb.js: setupAutoUpdate
\* the remote publishes a new database
Publish ==
  /\ remote # AllEditions
  /\ remote' = AllEditions
  /\ UNCHANGED <<aggVars, geoipConfig, file, dbInstance, ipCache, clock, proc, pass, scheduled, swapDone>>

\* variant: every edition whose HEAD request answered is downloaded again
NeedUpdateAny(headOk) == headOk

\* lines 186-209: the editions whose HEAD request answered (headOk) and whose
\* local file is older than the remote or cannot be stat'ed
NeedUpdate(headOk) ==
  {e \in headOk : file[e] = FMissing \/ e \in remote}

\* the weekly job fires, lines 183-224: freshness check, then downloadIPDB
\* (which starts with ensureIPDBDir) when an edition needs an update
RefreshFire(headOk) ==
  /\ scheduled
  /\ proc[REFRESH].pc = "idle"
  /\ headOk \subseteq geoipConfig.editionIds
  /\ IF NeedUpdate(headOk) # {}
       THEN proc' = [proc EXCEPT ![REFRESH] =
                       [Idle EXCEPT !.pc = "E_mkdir", !.ctx = "download", !.nd = 1,
                                    !.prev = dbInstance]]
       ELSE proc' = [proc EXCEPT ![REFRESH] = Idle]
  /\ UNCHANGED <<aggVars, geoipConfig, file, remote, dbInstance, ipCache, clock, pass, scheduled, swapDone>>

\* ------------------------------------------------- index.js: strings
\* String.prototype.includes
Includes(s, t) ==
  \E i \in 1..(Len(s) - Len(t) + 1) : SubSeq(s, i, i + Len(t) - 1) = t

UpperCase == "ABCDEFGHIJKLMNOPQRSTUVWXYZ"
LowerCase == "abcdefghijklmnopqrstuvwxyz"
LowerChar(c) ==
  IF \E k \in 1..Len(UpperCase) : SubSeq(UpperCase, k, k) = c
    THEN LET k == CHOOSE k \in 1..Len(UpperCase) : SubSeq(UpperCase, k, k) = c
         IN SubSeq(LowerCase, k, k)
    ELSE c

\* String.prototype.toLowerCase
RECURSIVE toLowerCase(_)
toLowerCase(s) ==
  IF Len(s) = 0 THEN ""
  ELSE LowerChar(SubSeq(s, 1, 1)) \o toLowerCase(SubSeq(s, 2, Len(s)))

\* ------------------------------------------------- index.js: parseNginxLog
\* s.charAt(i - 1)
At(s, i) == SubSeq(s, i, i)

Digits == "0123456789"
IsDigit(c) == \E k \in 1..Len(Digits) : At(Digits, k) = c
WhiteSpace == {" ", "\t"}

\* the character classes of the regex of line 44
NonSpace == "\\S"
Digit == "\\d"
NotBracket == "[^\\]]"
NotQuote == "[^\"]"
InClass(cls, c) ==
  CASE cls = NonSpace -> c \notin WhiteSpace
    [] cls = Digit -> IsDigit(c)
    [] cls = NotBracket -> c # "]"
    [] cls = NotQuote -> c # "\""

\* the position after the longest run of characters of cls in s from i on
RECURSIVE Span(_, _, _)
Span(cls, s, i) ==
  IF i <= Len(s) /\ InClass(cls, At(s, i)) THEN Span(cls, s, i + 1) ELSE i

\* the pieces of a regex matched at position i of s: the position after the
\* match, 0 when there is none (and from a position 0)
Star(cls, s, i) == IF i = 0 THEN 0 ELSE Span(cls, s, i)
Plus(cls, s, i) == IF i = 0 \/ Span(cls, s, i) = i THEN 0 ELSE Span(cls, s, i)
Lit(t, s, i) ==
  IF i # 0 /\ i + Len(t) - 1 <= Len(s) /\ SubSeq(s, i, i + Len(t) - 1) = t
    THEN i + Len(t) ELSE 0

\* variant of Match: the two tokens between the origin and the timestamp are
\* not asked for
MatchOriginOnly(line) ==
  LET p1 == Plus(NonSpace, line, 1)
      p4 == Lit(" [", line, p1)
      p5 == Plus(NotBracket, line, p4)
      p6 == Lit("] \"", line, p5)
      p7 == Star(NotQuote, line, p6)
      p8 == Lit("\" ", line, p7)
      p9 == Plus(Digit, line, p8)
      p10 == Lit(" ", line, p9)
      p11 == Plus(Digit, line, p10)
      t1 == Lit(" \"", line, p11)
      t2 == Star(NotQuote, line, t1)
      t3 == Lit("\" \"", line, t2)
      t4 == Star(NotQuote, line, t3)
      t5 == Lit("\"", line, t4)
  IN IF p11 = 0 THEN Null
     ELSE Some(<<SubSeq(line, 1, p1 - 1),
                 SubSeq(line, p4, p5 - 1),
                 SubSeq(line, p6, p7 - 1),
                 SubSeq(line, p8, p9 - 1),
                 SubSeq(line, p10, p11 - 1),
                 IF t5 = 0 THEN Null ELSE Some(SubSeq(line, t1, t2 - 1)),
                 IF t5 = 0 THEN Null ELSE Some(SubSeq(line, t3, t4 - 1))>>)

\* line.match(regex), lines 44-45:
\*   ^(\S+) \S+ \S+ \[([^\]]+)\] "([^"]*)" (\d+) (\d+)(?: "([^"]*)" "([^"]*)"|.*)
\* Null when the line does not match, else the captures matches[1..7], the last
\* two optional. No class can match the character that has to follow its run,
\* so each run is the longest one and the match is found without backtracking;
\* the second alternative .* matches whatever follows the byte count.
Match(line) ==
  LET p1 == Plus(NonSpace, line, 1)
      p2 == Plus(NonSpace, line, Lit(" ", line, p1))
      p3 == Plus(NonSpace, line, Lit(" ", line, p2))
      p4 == Lit(" [", line, p3)
      p5 == Plus(NotBracket, line, p4)
      p6 == Lit("] \"", line, p5)
      p7 == Star(NotQuote, line, p6)
      p8 == Lit("\" ", line, p7)
      p9 == Plus(Digit, line, p8)
      p10 == Lit(" ", line, p9)
      p11 == Plus(Digit, line, p10)
      t1 == Lit(" \"", line, p11)
      t2 == Star(NotQuote, line, t1)
      t3 == Lit("\" \"", line, t2)
      t4 == Star(NotQuote, line, t3)
      t5 == Lit("\"", line, t4)
  IN IF p11 = 0 THEN Null
     ELSE Some(<<SubSeq(line, 1, p1 - 1),
                 SubSeq(line, p4, p5 - 1),
                 SubSeq(line, p6, p7 - 1),
                 SubSeq(line, p8, p9 - 1),
                 SubSeq(line, p10, p11 - 1),
                 IF t5 = 0 THEN Null ELSE Some(SubSeq(line, t1, t2 - 1)),
                 IF t5 = 0 THEN Null ELSE Some(SubSeq(line, t3, t4 - 1))>>)

\* String.prototype.split with a separator of one character
RECURSIVE split(_, _)
split(s, sep) ==
  IF \E i \in 1..Len(s) : At(s, i) = sep
    THEN LET i == CHOOSE i \in 1..Len(s) :
                    At(s, i) = sep /\ \A j \in 1..(i - 1) : At(s, j) # sep
         IN <<SubSeq(s, 1, i - 1)>> \o split(SubSeq(s, i + 1, Len(s)), sep)
    ELSE <<s>>

\* Array.prototype.join from element i on
RECURSIVE join(_, _, _)
join(parts, sep, i) ==
  IF i > Len(parts) THEN ""
  ELSE IF i = Len(parts) THEN parts[i]
  ELSE parts[i] \o sep \o join(parts, sep, i + 1)

\* const [a, b, c] = parts: the element, undefined ("" here: both are falsy)
\* when the array is shorter
Nth(parts, k) == IF k <= Len(parts) THEN parts[k] ELSE ""

\* String.prototype.replace(':', ''): the first colon is removed
replace(s) ==
  IF \E i \in 1..Len(s) : At(s, i) = ":"
    THEN LET i == CHOOSE i \in 1..Len(s) :
                    At(s, i) = ":" /\ \A j \in 1..(i - 1) : At(s, j) # ":"
         IN SubSeq(s, 1, i - 1) \o SubSeq(s, i + 1, Len(s))
    ELSE s

\* the value of a string of digits
RECURSIVE ToNat(_)
ToNat(s) ==
  IF Len(s) = 0 THEN 0
  ELSE 10 * ToNat(SubSeq(s, 1, Len(s) - 1))
       + (CHOOSE k \in 0..9 : At(Digits, k + 1) = At(s, Len(s)))
IsDigits(s) == Len(s) > 0 /\ \A i \in 1..Len(s) : IsDigit(At(s, i))

\* parseInt(s) || 0 on a capture of \d+
parseInt(s) == ToNat(s)

\* the decimal digits of n, at least width of them
RECURSIVE Decimal(_, _)
Decimal(n, width) ==
  IF n < 10 /\ width <= 1 THEN At(Digits, n + 1)
  ELSE Decimal(n \div 10, width - 1) \o At(Digits, (n % 10) + 1)

\* variant of padStart: the string as it is
padStartNone(s) == s

\* day.padStart(2, '0'), line 96
padStart(s) == IF Len(s) = 0 THEN "00" ELSE IF Len(s) = 1 THEN "0" \o s ELSE s

\* ------------------------------------------------------ index.js: Date
\* A Date is a time value, the ms since 1970-01-01T00:00:00Z, kept as
\* <<Day(t), TimeWithinDay(t)>> so that no number exceeds 32 bits, or NaN
NaN == <<>>
msPerDay == 24 * 60 * 60 * 1000
\* new Date(ms) for a number of ms, as Date.now()
DateOf(ms) == <<ms \div msPerDay, ms % msPerDay>>
\* a.getTime() < b.getTime()
Earlier(a, b) == a[1] < b[1] \/ (a[1] = b[1] /\ a[2] < b[2])

\* MakeDay(year, month, date): the day number of a calendar date; a date past
\* the end of the month runs into the next one
MakeDay(y, m, d) ==
  LET yy == IF m <= 2 THEN y - 1 ELSE y
      era == yy \div 400
      yoe == yy - era * 400
      mp == (m + 9) % 12
      doy == (153 * mp + 2) \div 5 + d - 1
      doe == yoe * 365 + yoe \div 4 - yoe \div 100 + doy
  IN era * 146097 + doe - 719468

\* YearFromTime, MonthFromTime, DateFromTime of a day number
Civil(day) ==
  LET z == day + 719468
      era == z \div 146097
      doe == z - era * 146097
      yoe == (doe - doe \div 1460 + doe \div 36524 - doe \div 146096) \div 365
      doy == doe - (365 * yoe + yoe \div 4 - yoe \div 100)
      mp == (5 * doy + 2) \div 153
      m == IF mp < 10 THEN mp + 3 ELSE mp - 9
  IN [year |-> yoe + era * 400 + (IF m <= 2 THEN 1 ELSE 0),
      month |-> m,
      date |-> doy - (153 * mp + 2) \div 5 + 1]

\* MakeDate(day, time) for a time of day that may lie outside the day
MakeDate(day, ms) ==
  IF ms < 0 THEN <<day - 1, ms + msPerDay>>
  ELSE IF ms >= msPerDay THEN <<day + 1, ms - msPerDay>>
  ELSE <<day, ms>>

\* variant of Offset: the sign of the zone is not read
OffsetUnsigned(zone) ==
  LET hhmm == IF Len(zone) = 6 /\ At(zone, 4) = ":"
                THEN SubSeq(zone, 2, 3) \o SubSeq(zone, 5, 6)
                ELSE IF Len(zone) = 5 THEN SubSeq(zone, 2, 5) ELSE ""
  IN IF zone = "Z" THEN Some(0)
     ELSE IF /\ Len(zone) \in {5, 6}
             /\ At(zone, 1) \in {"+", "-"}
             /\ IsDigits(hhmm)
             /\ ToNat(SubSeq(hhmm, 1, 2)) <= 23
             /\ ToNat(SubSeq(hhmm, 3, 4)) <= 59
       THEN Some(60 * ToNat(SubSeq(hhmm, 1, 2)) + ToNat(SubSeq(hhmm, 3, 4)))
     ELSE Null

\* the offset in minutes of the zone "Z", "+hh:mm" or "+hhmm"; Null for
\* any other string
Offset(zone) ==
  LET sign == IF At(zone, 1) = "-" THEN -1 ELSE 1
      hhmm == IF Len(zone) = 6 /\ At(zone, 4) = ":"
                THEN SubSeq(zone, 2, 3) \o SubSeq(zone, 5, 6)
                ELSE IF Len(zone) = 5 THEN SubSeq(zone, 2, 5) ELSE ""
  IN IF zone = "Z" THEN Some(0)
     ELSE IF /\ Len(zone) \in {5, 6}
             /\ At(zone, 1) \in {"+", "-"}
             /\ IsDigits(hhmm)
             /\ ToNat(SubSeq(hhmm, 1, 2)) <= 23
             /\ ToNat(SubSeq(hhmm, 3, 4)) <= 59
       THEN Some(sign * (60 * ToNat(SubSeq(hhmm, 1, 2)) + ToNat(SubSeq(hhmm, 3, 4))))
     ELSE Null

\* new Date(s) for a string: the date-time format YYYY-MM-DDTHH:mm:ss.sss
\* followed by a zone, as the runtime reads it; NaN for any other string
DateParse(s) ==
  IF /\ Len(s) >= 24
     /\ At(s, 5) = "-" /\ At(s, 8) = "-" /\ At(s, 11) = "T"
     /\ At(s, 14) = ":" /\ At(s, 17) = ":" /\ At(s, 20) = "."
     /\ IsDigits(SubSeq(s, 1, 4)) /\ IsDigits(SubSeq(s, 6, 7))
     /\ IsDigits(SubSeq(s, 9, 10)) /\ IsDigits(SubSeq(s, 12, 13))
     /\ IsDigits(SubSeq(s, 15, 16)) /\ IsDigits(SubSeq(s, 18, 19))
     /\ IsDigits(SubSeq(s, 21, 23))
    THEN LET year == ToNat(SubSeq(s, 1, 4))
             month == ToNat(SubSeq(s, 6, 7))
             date == ToNat(SubSeq(s, 9, 10))
             hour == ToNat(SubSeq(s, 12, 13))
             minute == ToNat(SubSeq(s, 15, 16))
             second == ToNat(SubSeq(s, 18, 19))
             milli == ToNat(SubSeq(s, 21, 23))
             offset == Offset(SubSeq(s, 24, Len(s)))
         IN IF /\ month \in 1..12 /\ date \in 1..31
               /\ minute <= 59 /\ second <= 59
               /\ (hour <= 23 \/ (hour = 24 /\ minute = 0 /\ second = 0 /\ milli = 0))
               /\ offset # Null
              THEN MakeDate(MakeDay(year, month, date),
                            ((hour * 60 + minute - offset[1]) * 60 + second) * 1000 + milli)
              ELSE NaN
    ELSE NaN

\* Date.prototype.toISOString: YYYY-MM-DDTHH:mm:ss.sssZ, always in UTC
toISOString(date) ==
  LET c == Civil(date[1])
      ms == date[2]
  IN Decimal(c.year, 4) \o "-" \o Decimal(c.month, 2) \o "-" \o Decimal(c.date, 2)
     \o "T" \o Decimal(ms \div 3600000, 2) \o ":" \o Decimal((ms \div 60000) % 60, 2)
     \o ":" \o Decimal((ms \div 1000) % 60, 2) \o "." \o Decimal(ms % 1000, 3) \o "Z"

\* const months, lines 59-62
months ==
  <<"Jan", "Feb", "Mar", "Apr", "May", "Jun", "Jul", "Aug", "Sep", "Oct", "Nov", "Dec">>
\* months[month]: "" (undefined) for a key that is not in the table
MonthNum(month) ==
  IF \E k \in 1..12 : months[k] = month
    THEN Decimal(CHOOSE k \in 1..12 : months[k] = month, 2)
    ELSE ""

\* variant of parseTimestamp: no default for a timestamp it rejects
parseTimestampNoDefault(timestamp, now) ==
  LET parts == split(timestamp, " ")
      datePart == Nth(parts, 1)
      timezone == Nth(parts, 2)
      dmy == split(datePart, "/")
      day == Nth(dmy, 1)
      month == Nth(dmy, 2)
      yearTime == Nth(dmy, 3)
      yt == split(yearTime, ":")
      year == Nth(yt, 1)
      time == join(yt, ":", 2)
      hms == split(time, ":")
      hour == Nth(hms, 1)
      minute == Nth(hms, 2)
      second == Nth(hms, 3)
      monthNum == MonthNum(month)
      dateStr == year \o "-" \o monthNum \o "-" \o padStart(day) \o "T" \o hour \o ":"
                 \o minute \o ":" \o second \o ".000" \o replace(timezone)
      date == DateParse(dateStr)
  IN IF \/ timestamp = ""
        \/ Len(parts) # 2
        \/ day = "" \/ month = "" \/ yearTime = ""
        \/ year = "" \/ time = ""
        \/ hour = "" \/ minute = "" \/ second = ""
        \/ monthNum = ""
        \/ date = NaN
       THEN ""
       ELSE toISOString(date)

\* parseTimestamp, lines 57-107: the ISO string of the instant of a timestamp
\* that passes every check, the ISO string of the current time for any other
\* (the catch of lines 103-106); now is the Date of new Date()
parseTimestamp(timestamp, now) ==
  LET parts == split(timestamp, " ")
      datePart == Nth(parts, 1)
      timezone == Nth(parts, 2)
      dmy == split(datePart, "/")
      day == Nth(dmy, 1)
      month == Nth(dmy, 2)
      yearTime == Nth(dmy, 3)
      yt == split(yearTime, ":")
      year == Nth(yt, 1)
      time == join(yt, ":", 2)
      hms == split(time, ":")
      hour == Nth(hms, 1)
      minute == Nth(hms, 2)
      second == Nth(hms, 3)
      monthNum == MonthNum(month)
      dateStr == year \o "-" \o monthNum \o "-" \o padStart(day) \o "T" \o hour \o ":"
                 \o minute \o ":" \o second \o ".000" \o replace(timezone)
      date == DateParse(dateStr)
  IN IF \/ timestamp = ""
        \/ Len(parts) # 2
        \/ day = "" \/ month = "" \/ yearTime = ""
        \/ year = "" \/ time = ""
        \/ hour = "" \/ minute = "" \/ second = ""
        \/ monthNum = ""
        \/ date = NaN
       THEN toISOString(now)
       ELSE toISOString(date)

\* parseRequest, lines 110-123: method and path of the request string; the
\* pathname of a path is what precedes its query and fragment
pathname(path) ==
  LET cut == {i \in 1..Len(path) : At(path, i) \in {"?", "#"}} IN
  IF cut = {} THEN path
  ELSE SubSeq(path, 1, (CHOOSE i \in cut : \A j \in cut : i <= j) - 1)
parseRequest(req) ==
  LET parts == split(req, " ")
      method == Nth(parts, 1)
      path == Nth(parts, 2)
  IN [method |-> IF method = "" THEN "UNKNOWN" ELSE method,
      path |-> IF path = "" THEN "/"
               ELSE IF pathname(path) = "" THEN path ELSE pathname(path)]

\* matches[k] || '-': the capture is undefined (the line ends after the byte
\* count) or empty
OrDash(capture) ==
  IF capture = Null \/ capture = Some("") THEN "-" ELSE capture[1]

\* variant of Record: the record is stamped with the time of the call
RecordIngestTime(matches, ipLocation, now) ==
  [ip |-> matches[1],
   ipLocation |-> ipLocation,
   timestamp |-> toISOString(now),
   method |-> parseRequest(matches[3]).method,
   path |-> parseRequest(matches[3]).path,
   status |-> parseInt(matches[4]),
   bytes |-> parseInt(matches[5]),
   referer |-> OrDash(matches[6]),
   userAgent |-> OrDash(matches[7])]

\* parseNginxLog, lines 127-137: the record of a matching line; ipLocation is
\* what queryIPLocation(matches[1]) returned
Record(matches, ipLocation, now) ==
  [ip |-> matches[1],
   ipLocation |-> ipLocation,
   timestamp |-> parseTimestamp(matches[2], now),
   method |-> parseRequest(matches[3]).method,
   path |-> parseRequest(matches[3]).path,
   status |-> parseInt(matches[4]),
   bytes |-> parseInt(matches[5]),
   referer |-> OrDash(matches[6]),
   userAgent |-> OrDash(matches[7])]

\* ------------------------------------------- index.js: GET /api/metrics
\* lines 241-253 and 422-434
ZeroSources ==
  [direct |-> 0, search |-> 0, referral |-> 0, social |-> 0,
   searchEngines |-> [google |-> 0, bing |-> 0, baidu |-> 0, sogou |-> 0, so |-> 0]]
\* lines 255-261 and 437-443
ZeroDevices == [desktop |-> 0, mobile |-> 0, tablet |-> 0, bot |-> 0, other |-> 0]

\* /api/metrics, lines 273-305: the source of one record is counted
MetricsSource(sources, log) ==
  LET referer == log.referer IN
  IF referer = "" \/ referer = "-"
    THEN [sources EXCEPT !.direct = @ + 1]
  ELSE IF \/ Includes(referer, "google.")
          \/ Includes(referer, "bing.")
          \/ Includes(referer, "baidu.")
          \/ Includes(referer, "sogou.")
          \/ Includes(referer, "so.com")
    THEN LET s == [sources EXCEPT !.search = @ + 1] IN
         IF Includes(referer, "google.") THEN [s EXCEPT !.searchEngines.google = @ + 1]
         ELSE IF Includes(referer, "bing.") THEN [s EXCEPT !.searchEngines.bing = @ + 1]
         ELSE IF Includes(referer, "baidu.") THEN [s EXCEPT !.searchEngines.baidu = @ + 1]
         ELSE IF Includes(referer, "sogou.") THEN [s EXCEPT !.searchEngines.sogou = @ + 1]
         ELSE IF Includes(referer, "so.com") THEN [s EXCEPT !.searchEngines.so = @ + 1]
         ELSE s
  ELSE IF \/ Includes(referer, "facebook.")
          \/ Includes(referer, "twitter.")
          \/ Includes(referer, "weibo.")
    THEN [sources EXCEPT !.social = @ + 1]
  ELSE [sources EXCEPT !.referral = @ + 1]

\* variant of MetricsDevice: the mobile tokens are tried before the tablet
\* tokens
MetricsDeviceMobileFirst(devices, log) ==
  LET ua == toLowerCase(log.userAgent) IN
  IF \/ Includes(ua, "bot")
     \/ Includes(ua, "spider")
     \/ Includes(ua, "crawler")
     \/ Includes(ua, "googlebot")
     \/ Includes(ua, "baiduspider")
     \/ Includes(ua, "bingbot")
     \/ Includes(ua, "yandexbot")
     \/ Includes(ua, "slurp")
     \/ Includes(ua, "duckduckbot")
     \/ Includes(ua, "python-requests")
     \/ Includes(ua, "go-http-client")
     \/ Includes(ua, "censysinspect")
    THEN [devices EXCEPT !.bot = @ + 1]
  ELSE IF \/ Includes(ua, "iphone")
          \/ Includes(ua, "ipod")
          \/ (Includes(ua, "android") /\ Includes(ua, "mobile"))
          \/ Includes(ua, "windows phone")
          \/ Includes(ua, "blackberry")
          \/ Includes(ua, "webos")
          \/ Includes(ua, "iemobile")
          \/ Includes(ua, "mobile")
    THEN [devices EXCEPT !.mobile = @ + 1]
  ELSE IF \/ Includes(ua, "ipad")
          \/ Includes(ua, "tablet")
          \/ (Includes(ua, "android") /\ ~Includes(ua, "mobile"))
          \/ Includes(ua, "kindle")
          \/ Includes(ua, "playbook")
    THEN [devices EXCEPT !.tablet = @ + 1]
  ELSE IF \/ Includes(ua, "windows")
          \/ Includes(ua, "macintosh")
          \/ Includes(ua, "x11")
          \/ (Includes(ua, "linux") /\ ~Includes(ua, "android"))
          \/ Includes(ua, "ubuntu")
          \/ (Includes(ua, "firefox") /\ ~Includes(ua, "mobile"))
          \/ (Includes(ua, "chrome") /\ ~Includes(ua, "mobile") /\ ~Includes(ua, "android"))
    THEN [devices EXCEPT !.desktop = @ + 1]
  ELSE [devices EXCEPT !.other = @ + 1]

\* /api/metrics, lines 307-365: the device of one record is counted
MetricsDevice(devices, log) ==
  LET ua == toLowerCase(log.userAgent) IN
  IF \/ Includes(ua, "bot")
     \/ Includes(ua, "spider")
     \/ Includes(ua, "crawler")
     \/ Includes(ua, "googlebot")
     \/ Includes(ua, "baiduspider")
     \/ Includes(ua, "bingbot")
     \/ Includes(ua, "yandexbot")
     \/ Includes(ua, "slurp")
     \/ Includes(ua, "duckduckbot")
     \/ Includes(ua, "python-requests")
     \/ Includes(ua, "go-http-client")
     \/ Includes(ua, "censysinspect")
    THEN [devices EXCEPT !.bot = @ + 1]
  ELSE IF \/ Includes(ua, "ipad")
          \/ Includes(ua, "tablet")
          \/ (Includes(ua, "android") /\ ~Includes(ua, "mobile"))
          \/ Includes(ua, "kindle")
          \/ Includes(ua, "playbook")
    THEN [devices EXCEPT !.tablet = @ + 1]
  ELSE IF \/ Includes(ua, "iphone")
          \/ Includes(ua, "ipod")
          \/ (Includes(ua, "android") /\ Includes(ua, "mobile"))
          \/ Includes(ua, "windows phone")
          \/ Includes(ua, "blackberry")
          \/ Includes(ua, "webos")
          \/ Includes(ua, "iemobile")
          \/ Includes(ua, "mobile")
    THEN [devices EXCEPT !.mobile = @ + 1]
  ELSE IF \/ Includes(ua, "windows")
          \/ Includes(ua, "macintosh")
          \/ Includes(ua, "x11")
          \/ (Includes(ua, "linux") /\ ~Includes(ua, "android"))
          \/ Includes(ua, "ubuntu")
          \/ (Includes(ua, "firefox") /\ ~Includes(ua, "mobile"))
          \/ (Includes(ua, "chrome") /\ ~Includes(ua, "mobile") /\ ~Includes(ua, "android"))
    THEN [devices EXCEPT !.desktop = @ + 1]
  ELSE [devices EXCEPT !.other = @ + 1]

\* /api/metrics, lines 263-365: logs.forEach from record i on
RECURSIVE MetricsEach(_, _, _)
MetricsEach(acc, logs, i) ==
  IF i > Len(logs) THEN acc
  ELSE MetricsEach([sources |-> MetricsSource(acc.sources, logs[i]),
                    devices |-> MetricsDevice(acc.devices, logs[i])], logs, i + 1)

\* ------------------------------------------- index.js: GET /api/traffic
\* new Date(log.timestamp), lines 390-391: NaN for an invalid date
dateObj(log) == DateParse(log.timestamp)

\* sort((a, b) => a.dateObj - b.dateObj), line 403: ascending and stable
RECURSIVE InsertByDate(_, _)
InsertByDate(sorted, log) ==
  IF sorted = <<>> THEN <<log>>
  ELSE IF Earlier(dateObj(log), dateObj(Head(sorted))) THEN <<log>> \o sorted
  ELSE <<Head(sorted)>> \o InsertByDate(Tail(sorted), log)

RECURSIVE SortByDate(_, _, _)
SortByDate(sorted, logs, i) ==
  IF i > Len(logs) THEN sorted
  ELSE SortByDate(InsertByDate(sorted, logs[i]), logs, i + 1)

\* variant of sortedLogs: the records with a valid date, in the order read
sortedLogsUnsorted(logs) ==
  SelectSeq(logs, LAMBDA log : log.timestamp # "" /\ dateObj(log) # NaN)

\* /api/traffic, lines 386-403: the records with a timestamp and a valid
\* date, by date
sortedLogs(logs) ==
  SortByDate(<<>>, SelectSeq(logs, LAMBDA log : log.timestamp # "" /\ dateObj(log) # NaN), 1)

\* the offsets from UTC, in minutes, of the time zones the server may run in
TimezoneOffsets == {0, 480, -330}

\* format(log.dateObj, 'yyyy-MM-dd HH:00'), line 407: the hour of the instant
\* in the local time of the server, tz minutes ahead of UTC
format(date, tz) ==
  LET local == MakeDate(date[1], date[2] + tz * 60000)
      c == Civil(local[1])
  IN Decimal(c.year, 4) \o "-" \o Decimal(c.month, 2) \o "-" \o Decimal(c.date, 2)
     \o " " \o Decimal(local[2] \div 3600000, 2) \o ":00"

\* /api/traffic, lines 406-419: the reduce from record i on; acc holds the
\* entries of hourlyData in the order the keys were added
RECURSIVE hourlyData(_, _, _, _)
hourlyData(acc, logs, i, tz) ==
  IF i > Len(logs) THEN acc
  ELSE LET hour == format(dateObj(logs[i]), tz) IN
       hourlyData(IF \E k \in 1..Len(acc) : acc[k].hour = hour
                    THEN [k \in 1..Len(acc) |->
                            IF acc[k].hour = hour THEN [acc[k] EXCEPT !.count = @ + 1]
                            ELSE acc[k]]
                    ELSE Append(acc, [hour |-> hour, count |-> 1]),
                  logs, i + 1, tz)

\* variant of TrafficSource: the social domains are tried before the search
\* engines
TrafficSourceSocialFirst(sources, log) ==
  LET referer == log.referer IN
  IF referer = "" \/ referer = "-"
    THEN [sources EXCEPT !.direct = @ + 1]
  ELSE IF \/ Includes(referer, "facebook.")
          \/ Includes(referer, "twitter.")
          \/ Includes(referer, "weibo.")
    THEN [sources EXCEPT !.social = @ + 1]
  ELSE IF \/ Includes(referer, "google.")
          \/ Includes(referer, "bing.")
          \/ Includes(referer, "baidu.")
          \/ Includes(referer, "sogou.")
          \/ Includes(referer, "so.com")
    THEN LET s == [sources EXCEPT !.search = @ + 1] IN
         IF Includes(referer, "google.") THEN [s EXCEPT !.searchEngines.google = @ + 1]
         ELSE IF Includes(referer, "bing.") THEN [s EXCEPT !.searchEngines.bing = @ + 1]
         ELSE IF Includes(referer, "baidu.") THEN [s EXCEPT !.searchEngines.baidu = @ + 1]
         ELSE IF Includes(referer, "sogou.") THEN [s EXCEPT !.searchEngines.sogou = @ + 1]
         ELSE IF Includes(referer, "so.com") THEN [s EXCEPT !.searchEngines.so = @ + 1]
         ELSE s
  ELSE [sources EXCEPT !.referral = @ + 1]

\* /api/traffic, lines 447-474: the source of one record is counted
TrafficSource(sources, log) ==
  LET referer == log.referer IN
  IF referer = "" \/ referer = "-"
    THEN [sources EXCEPT !.direct = @ + 1]
  ELSE IF \/ Includes(referer, "google.")
          \/ Includes(referer, "bing.")
          \/ Includes(referer, "baidu.")
          \/ Includes(referer, "sogou.")
          \/ Includes(referer, "so.com")
    THEN LET s == [sources EXCEPT !.search = @ + 1] IN
         IF Includes(referer, "google.") THEN [s EXCEPT !.searchEngines.google = @ + 1]
         ELSE IF Includes(referer, "bing.") THEN [s EXCEPT !.searchEngines.bing = @ + 1]
         ELSE IF Includes(referer, "baidu.") THEN [s EXCEPT !.searchEngines.baidu = @ + 1]
         ELSE IF Includes(referer, "sogou.") THEN [s EXCEPT !.searchEngines.sogou = @ + 1]
         ELSE IF Includes(referer, "so.com") THEN [s EXCEPT !.searchEngines.so = @ + 1]
         ELSE s
  ELSE IF \/ Includes(referer, "facebook.")
          \/ Includes(referer, "twitter.")
          \/ Includes(referer, "weibo.")
    THEN [sources EXCEPT !.social = @ + 1]
  ELSE [sources EXCEPT !.referral = @ + 1]

\* /api/traffic, lines 476-533: the device of one record is counted
TrafficDevice(devices, log) ==
  LET ua == toLowerCase(log.userAgent) IN
  IF \/ Includes(ua, "bot")
     \/ Includes(ua, "spider")
     \/ Includes(ua, "crawler")
     \/ Includes(ua, "googlebot")
     \/ Includes(ua, "baiduspider")
     \/ Includes(ua, "bingbot")
     \/ Includes(ua, "yandexbot")
     \/ Includes(ua, "slurp")
     \/ Includes(ua, "duckduckbot")
     \/ Includes(ua, "python-requests")
     \/ Includes(ua, "go-http-client")
     \/ Includes(ua, "censysinspect")
    THEN [devices EXCEPT !.bot = @ + 1]
  ELSE IF \/ Includes(ua, "ipad")
          \/ Includes(ua, "tablet")
          \/ (Includes(ua, "android") /\ ~Includes(ua, "mobile"))
          \/ Includes(ua, "kindle")
          \/ Includes(ua, "playbook")
    THEN [devices EXCEPT !.tablet = @ + 1]
  ELSE IF \/ Includes(ua, "iphone")
          \/ Includes(ua, "ipod")
          \/ (Includes(ua, "android") /\ Includes(ua, "mobile"))
          \/ Includes(ua, "windows phone")
          \/ Includes(ua, "blackberry")
          \/ Includes(ua, "webos")
          \/ Includes(ua, "iemobile")
          \/ Includes(ua, "mobile")
    THEN [devices EXCEPT !.mobile = @ + 1]
  ELSE IF \/ Includes(ua, "windows")
          \/ Includes(ua, "macintosh")
          \/ Includes(ua, "x11")
          \/ (Includes(ua, "linux") /\ ~Includes(ua, "android"))
          \/ Includes(ua, "ubuntu")
          \/ (Includes(ua, "firefox") /\ ~Includes(ua, "mobile"))
          \/ (Includes(ua, "chrome") /\ ~Includes(ua, "mobile") /\ ~Includes(ua, "android"))
    THEN [devices EXCEPT !.desktop = @ + 1]
  ELSE [devices EXCEPT !.other = @ + 1]

\* /api/traffic, lines 446-534: sortedLogs.forEach from record i on
RECURSIVE TrafficEach(_, _, _)
TrafficEach(acc, logs, i) ==
  IF i > Len(logs) THEN acc
  ELSE TrafficEach([sources |-> TrafficSource(acc.sources, logs[i]),
                    devices |-> TrafficDevice(acc.devices, logs[i])], logs, i + 1)

\* the names given to a region and a city that the location does not have
\* (lines 546-547; the Chinese literals for "unknown region" and "unknown
\* city", written here in ASCII)
UnknownRegion == "weizhi diqu"
UnknownCity == "weizhi chengshi"

\* cities.set(city, (cities.get(city) || 0) + 1), lines 552-563; a Map is the
\* sequence of its entries in insertion order
CountName(entries, name) ==
  IF \E k \in 1..Len(entries) : entries[k].name = name
    THEN [k \in 1..Len(entries) |->
            IF entries[k].name = name THEN [entries[k] EXCEPT !.count = @ + 1]
            ELSE entries[k]]
    ELSE Append(entries, [name |-> name, count |-> 1])

\* /api/traffic, lines 543-564: the loop over sortedLogs from record i on;
\* provinceMap holds name, count and cities of each region
RECURSIVE provinceMap(_, _, _)
provinceMap(acc, logs, i) ==
  IF i > Len(logs) THEN acc
  ELSE LET log == logs[i] IN
       IF log.ipLocation = Null THEN provinceMap(acc, logs, i + 1)
       ELSE LET region == IF log.ipLocation[1].region = "" THEN UnknownRegion
                          ELSE log.ipLocation[1].region
                city == IF log.ipLocation[1].city = "" THEN UnknownCity
                        ELSE log.ipLocation[1].city
            IN IF region = "Error" \/ region = "Unknown"
                 THEN provinceMap(acc, logs, i + 1)
               ELSE IF \E k \in 1..Len(acc) : acc[k].name = region
                 THEN provinceMap([k \in 1..Len(acc) |->
                                     IF acc[k].name = region
                                       THEN [acc[k] EXCEPT !.count = @ + 1,
                                                           !.cities = CountName(@, city)]
                                       ELSE acc[k]], logs, i + 1)
               ELSE provinceMap(Append(acc, [name |-> region, count |-> 1,
                                             cities |-> <<[name |-> city, count |-> 1]>>]),
                                logs, i + 1)

\* /api/metrics, lines 208-230: the loop over logs from record i on;
\* locationMap holds name, count and cities of each region, and only the
\* records whose location has a region are counted
RECURSIVE locationMap(_, _, _)
locationMap(acc, logs, i) ==
  IF i > Len(logs) THEN acc
  ELSE LET log == logs[i] IN
       IF log.ipLocation = Null \/ log.ipLocation[1].region = ""
         THEN locationMap(acc, logs, i + 1)
       ELSE LET key == log.ipLocation[1].region
                cityKey == IF log.ipLocation[1].city = "" THEN UnknownCity
                           ELSE log.ipLocation[1].city
            IN IF \E k \in 1..Len(acc) : acc[k].name = key
                 THEN locationMap([k \in 1..Len(acc) |->
                                     IF acc[k].name = key
                                       THEN [acc[k] EXCEPT !.count = @ + 1,
                                                           !.cities = CountName(@, cityKey)]
                                       ELSE acc[k]], logs, i + 1)
               ELSE locationMap(Append(acc, [name |-> key, count |-> 1,
                                             cities |-> <<[name |-> cityKey, count |-> 1]>>]),
                                logs, i + 1)

\* metrics.geoDistribution.provinces, lines 233-237: the entries in insertion
\* order
metricsProvinces(logs) == locationMap(<<>>, logs, 1)

\* sort((a, b) => b.count - a.count), lines 573 and 575: descending and stable
RECURSIVE InsertByCount(_, _)
InsertByCount(sorted, x) ==
  IF sorted = <<>> THEN <<x>>
  ELSE IF x.count > Head(sorted).count THEN <<x>> \o sorted
  ELSE <<Head(sorted)>> \o InsertByCount(Tail(sorted), x)
RECURSIVE SortByCount(_, _, _)
SortByCount(sorted, xs, i) ==
  IF i > Len(xs) THEN sorted
  ELSE SortByCount(InsertByCount(sorted, xs[i]), xs, i + 1)

\* geoDistribution.provinces, lines 567-575
provinces(logs) ==
  LET ps == provinceMap(<<>>, logs, 1) IN
  SortByCount(<<>>, [k \in 1..Len(ps) |->
                       [ps[k] EXCEPT !.cities = SortByCount(<<>>, @, 1)]], 1)

\* ------------------------------------------------ the dashboard (App)
\* fetchMetrics and fetchTraffic
Fetches == {"metrics", "traffic"}

\* how an attempt ends: the response is read ("ok"), the status is not ok
\* or the body is no JSON ("status"), the 30 s timer aborts the request
\* ("abort"), or fetch rejects ("network")
Outcomes == {"ok", "status", "abort", "network"}

\* the argument of setError in the catch block, lines 166-170 and 196-200 (the
\* Chinese literals for "request timed out, retrying" and "failed to get the
\* data", written here in ASCII)
Message(outcome) ==
  IF outcome = "abort" THEN "qingqiu chaoshi, zhengzai chongshi..."
  ELSE IF outcome = "status" THEN "huoqu shuju shibai"
  ELSE "Failed to fetch"

\* variant of ShouldRetry: a retry also after the attempt of retryCount 3
ShouldRetryOnceMore(retryCount) == retryCount <= 3

\* if (retryCount < 3), lines 173 and 203
ShouldRetry(retryCount) == retryCount < 3

\* the delay of setTimeout, lines 174 and 204
Delay(retryCount) == 1000 * (retryCount + 1)

\* a fetch that was not started; of a started one: pc is "flight" (the
\* request is out), "timer" (the retry is scheduled) or "done"; retryCount is
\* the argument of the current call, requests the number of requests issued
\* since the call with retryCount 0, last the outcome of the latest attempt
\* that ended, delay the delay of the scheduled retry
NoFetch == [pc |-> "none", retryCount |-> 0, requests |-> 0, last |-> "none", delay |-> 0]

\* useState, lines 103-106: loading is true and error is null at first;
\* loads counts the calls of loadData, pending holds the fetches whose first
\* call has not returned to Promise.all
NoDash ==
  [loads |-> 0, loading |-> TRUE, error |-> Null,
   data |-> [x \in Fetches |-> FALSE],
   fetch |-> [x \in Fetches |-> NoFetch],
   pending |-> {}]

\* loadData, lines 228-230, on mount and every five minutes: both fetches
\* start with retryCount 0. An attempt ends within 30 s and the delays of a
\* fetch sum to 6 s, so the fetches of the former call have ended.
LoadData ==
  /\ dash.loads < MaxLoads
  /\ \A x \in Fetches : dash.fetch[x].pc \in {"none", "done"}
  /\ dash' = [dash EXCEPT !.loads = @ + 1,
                          !.loading = TRUE,
                          !.fetch = [x \in Fetches |->
                                       [NoFetch EXCEPT !.pc = "flight", !.requests = 1]],
                          !.pending = Fetches]
  /\ UNCHANGED <<ipdbVars, request, sample, parse>>

\* fetchMetrics and fetchTraffic, lines 156-176 and 186-206: the attempt of
\* fetch x ends. A success stores the data and sets error to null; a failure
\* sets error to its message and schedules the retry when ShouldRetry. When
\* the first call of the last pending fetch returns, Promise.all resolves and
\* loadData sets loading to false (line 231).
Settle(x, outcome) ==
  /\ dash.fetch[x].pc = "flight"
  /\ LET r == dash.fetch[x]
         failed == outcome # "ok"
         retry == failed /\ ShouldRetry(r.retryCount)
         pending == dash.pending \ {x}
     IN dash' = [dash EXCEPT
                   !.fetch[x] = [r EXCEPT !.pc = IF retry THEN "timer" ELSE "done",
                                          !.last = IF failed THEN "failed" ELSE "ok",
                                          !.delay = IF retry THEN Delay(r.retryCount) ELSE 0],
                   !.error = IF failed THEN Some(Message(outcome)) ELSE Null,
                   !.data[x] = @ \/ ~failed,
                   !.pending = pending,
                   !.loading = IF dash.pending # {} /\ pending = {} THEN FALSE ELSE @]
  /\ UNCHANGED <<ipdbVars, request, sample, parse>>

\* the timer of lines 174 and 204 fires: fetch x is called with retryCount + 1
\* and issues its request
RetryFire(x) ==
  /\ dash.fetch[x].pc = "timer"
  /\ dash' = [dash EXCEPT !.fetch[x].pc = "flight",
                          !.fetch[x].retryCount = @ + 1,
                          !.fetch[x].requests = @ + 1,
                          !.fetch[x].delay = 0]
  /\ UNCHANGED <<ipdbVars, request, sample, parse>>

\* --------------------------------------------- the requests of the model
\* no request is being served, no record is being counted
NoRequest ==
  [pc |-> "none", lines |-> <<>>, logs |-> <<>>, status |-> 0, totalVisits |-> 0,
   sources |-> ZeroSources, devices |-> ZeroDevices, hourly |-> <<>>, tz |-> 0,
   provinces |-> <<>>]
NoParse == [pc |-> "none", choice |-> <<>>, line |-> "", calls |-> <<>>]
NoSample ==
  [pc |-> "none",
   log |-> [timestamp |-> "1970-01-01T00:00:00.000Z", referer |-> "-", userAgent |-> "-"],
   sources |-> ZeroSources, devices |-> ZeroDevices]
AggIdle == request = NoRequest /\ sample = NoSample /\ parse = NoParse /\ dash = NoDash

\* variant of Outcome: no test for an empty record set
OutcomeNoEmptyCheck(logs) == IF Len(logs) < 0 THEN 404 ELSE 200

\* lines 176-178 and 381-383: "no data" for an empty record set, else the
\* aggregates are computed and sent
Outcome(logs) == IF Len(logs) = 0 THEN 404 ELSE 200
Endpoints == {"metrics", "traffic"}

\* ------------------------------------------------- index.js: readAllLogs
\* queryIPLocation for line i of the file read, up to its first wait for I/O:
\* the cache, else the open handle, else initDBInstance -> ensureIPDBDir
QueryStart(line) ==
  IF line = NoMatch THEN [Idle EXCEPT !.pc = "nomatch"]
  ELSE IF CacheHit(ipCache, line, clock)
    THEN [Idle EXCEPT !.pc = "done", !.ip = line, !.now = clock,
                      !.result = Some(ipCache[line][1].data)]
  ELSE IF dbInstance # Null
    THEN [Idle EXCEPT !.pc = "done", !.ip = line, !.now = clock, !.queried = TRUE,
                      !.result = DbGet(dbInstance[1], line)]
  ELSE [Idle EXCEPT !.pc = "E_mkdir", !.ctx = "init", !.ip = line, !.now = clock]

\* the cache after the lookups of one file that found the handle open
RECURSIVE CacheAfter(_, _, _)
CacheAfter(cache, started, i) ==
  IF i > Len(started) THEN cache
  ELSE LET r == started[i] IN
       CacheAfter(IF r.pc = "done" /\ r.queried /\ r.result # Null
                    THEN CacheSet(cache, r.ip, r.now, r.result[1], dbInstance[1]) ELSE cache,
                  started, i + 1)

LineSeqs == UNION {[1..n -> Lines] : n \in 0..MaxLines}

\* GET /api/metrics or /api/traffic calls readAllLogs
PassStart ==
  /\ pass.pc \in {"idle", "done"}
  /\ pass' = [pc |-> "read", idx |-> 1, allLogs |-> <<>>, expected |-> <<>>, skipped |-> 0]
  /\ request' = NoRequest
  /\ UNCHANGED <<sample, parse, dash, geoipConfig, file, remote, dbInstance, ipCache, clock, proc, scheduled, swapDone>>

NextPath(ps) ==
  IF ps.idx = Len(NGINX_LOG_PATHS) THEN [ps EXCEPT !.pc = "done"]
  ELSE [ps EXCEPT !.pc = "read", !.idx = @ + 1]

\* lines 174-178 and 379-383: readAllLogs returned to the handler of endpoint,
\* which goes on in the same turn of the event loop; the aggregates of a
\* non-empty record set are those of GetMetrics and GetTraffic
Returned(endpoint, ps) ==
  IF ps.pc = "done"
    THEN [NoRequest EXCEPT !.pc = endpoint, !.logs = ps.allLogs,
                           !.status = Outcome(ps.allLogs)]
    ELSE request

\* variant of PassSkip: the records of the paths read before are lost
PassSkipDropsRecords(endpoint) ==
  /\ pass.pc = "read"
  /\ pass' = NextPath([pass EXCEPT !.skipped = @ + 1, !.allLogs = <<>>])
  /\ request' = Returned(endpoint, pass')
  /\ UNCHANGED <<sample, parse, dash, geoipConfig, file, remote, dbInstance, ipCache, clock, proc, scheduled, swapDone>>

\* readAllLogs, lines 151-155 and 163-165: the path is missing or unreadable
PassSkip(endpoint) ==
  /\ pass.pc = "read"
  /\ pass' = NextPath([pass EXCEPT !.skipped = @ + 1])
  /\ request' = Returned(endpoint, pass')
  /\ UNCHANGED <<sample, parse, dash, geoipConfig, file, remote, dbInstance, ipCache, clock, proc, scheduled, swapDone>>

\* readAllLogs, lines 157-159: the file is read and every line is handed to
\* parseNginxLog at once
PassRead(lines) ==
  /\ pass.pc = "read"
  /\ LET started == [i \in 1..Len(lines) |-> QueryStart(lines[i])] IN
     /\ proc' = [p \in Procs |->
                   IF p \in Slots
                     THEN IF p[2] <= Len(lines) THEN started[p[2]] ELSE Idle
                     ELSE proc[p]]
     /\ ipCache' = CacheAfter(ipCache, started, 1)
  /\ pass' = [pass EXCEPT !.pc = "join",
                          !.expected = @ \o SelectSeq(lines, LAMBDA l : l # NoMatch)]
  /\ UNCHANGED <<aggVars, geoipConfig, file, remote, dbInstance, clock, scheduled, swapDone>>

\* the records of the lines parsed, in line order (parsedLogs.filter(Boolean));
\* parseNginxLog returns null when queryIPLocation rejects (lines 138-142)
RECURSIVE ValidLogs(_)
ValidLogs(i) ==
  IF i > MaxLines THEN <<>>
  ELSE (IF proc[Q(i)].pc = "done"
          THEN <<[ip |-> proc[Q(i)].ip, ipLocation |-> proc[Q(i)].result]>>
          ELSE <<>>) \o ValidLogs(i + 1)

\* variant of PassJoin: the records are collected before every lookup settled
PassJoinEarly(endpoint) ==
  /\ pass.pc = "join"
  /\ pass' = NextPath([pass EXCEPT !.allLogs = @ \o ValidLogs(1)])
  /\ request' = Returned(endpoint, pass')
  /\ proc' = [p \in Procs |-> IF p \in Slots THEN Idle ELSE proc[p]]
  /\ UNCHANGED <<sample, parse, dash, geoipConfig, file, remote, dbInstance, ipCache, clock, scheduled, swapDone>>

\* readAllLogs, lines 159-162: Promise.all resolved, the records are appended
PassJoin(endpoint) ==
  /\ pass.pc = "join"
  /\ \A q \in Slots : proc[q].pc \in {"idle", "nomatch", "done", "rejected"}
  /\ pass' = NextPath([pass EXCEPT !.allLogs = @ \o ValidLogs(1)])
  /\ request' = Returned(endpoint, pass')
  /\ proc' = [p \in Procs |-> IF p \in Slots THEN Idle ELSE proc[p]]
  /\ UNCHANGED <<sample, parse, dash, geoipConfig, file, remote, dbInstance, ipCache, clock, scheduled, swapDone>>

\* time passes
Tick ==
  /\ clock < MaxTicks * TickMs
  /\ clock' = clock + TickMs
  /\ UNCHANGED <<aggVars, geoipConfig, file, remote, dbInstance, ipCache, proc, pass, scheduled, swapDone>>


\* the lines of the log files of a request
SampleLines ==
  { "1.1.1.1 - - [10/Oct/2024:13:55:36 +0000] \"GET / HTTP/1.1\" 200 512",
    "10.0.0.1 - - [10/Foo/2024:13:55:36 +0000] \"GET /a?x=1 HTTP/1.1\" 200 5 \"https://www.google.com/search?q=x\" \"Mozilla/5.0 (Linux; Android 10) Mobile Safari/537.36\"",
    "8.8.8.8 - alice [10/Oct/2024:23:00:36 +0800] \"GET /b HTTP/1.1\" 404 0 \"https://www.facebook.com/\" \"Mozilla/5.0 (iPad; CPU OS 16_0 like Mac OS X)\"",
    "1.1.1.1 - - [10/Oct/2024:13:25:36 +0000] \"POST /c HTTP/1.1\" 201 7 \"https://example.org/a\" \"Mozilla/5.0 (Windows NT 10.0; Win64; x64)\"",
    "1.1.1.1 - - [9/Oct/2024:23:59:59 -0530] \"GET /robots.txt HTTP/1.1\" 200 1 \"\" \"Googlebot/2.1 (+http://www.google.com/bot.html)\"",
    "8.8.8.8 - - [11/Oct/2024:00:05:00 +0000] \"HEAD / HTTP/1.1\" 200 0 \"-\" \"curl/8.0\"" }
LogFiles == UNION {[1..n -> SampleLines] : n \in 0..MaxLogs}

\* a string of the fragments chosen, in order, with a separator
RECURSIVE Join(_, _, _, _)
Join(frags, chosen, sep, i) ==
  IF i > Len(frags) THEN ""
  ELSE LET rest == Join(frags, chosen, sep, i + 1) IN
       IF i \notin chosen THEN rest
       ELSE IF rest = "" THEN frags[i] ELSE frags[i] \o sep \o rest
Choices(frags, max) == {c \in SUBSET (1..Len(frags)) : Cardinality(c) <= max}

UAFrags ==
  <<"Mozilla/5.0", "Android", "Mobile", "iPad", "Tablet", "Kindle", "iPhone",
    "Windows NT", "Macintosh", "X11; Linux", "Firefox", "Chrome", "Googlebot", "CUBOT">>
UserAgents == {Join(UAFrags, c, " ", 1) : c \in Choices(UAFrags, MaxUaFrags)} \cup {"-"}

RefFrags ==
  <<"www.google.com", "cn.bing.com", "baidu.com", "sogou.com", "so.com",
    "facebook.com", "twitter.com", "weibo.com", "example.org", "also.community">>
Referers ==
  {"", "-"} \cup
  {"https://" \o Join(RefFrags, c, "/", 1) : c \in Choices(RefFrags, MaxRefFrags) \ {{}}}

\* what queryIPLocation(ip) settles with: the location of the database when
\* the cache or an open handle answers (up), null when no database can be
\* opened
queryIPLocation(ip, up) == IF up THEN DbGet(Cur, ip) ELSE Null

\* variant of parseNginxLog: a line that the regex rejects still gives a
\* record
parseNginxLogAlways(line, up, now) ==
  LET matches == Match(line) IN
  IF matches = Null
    THEN Some(Record(<<"", "", "", "", "", Null, Null>>, Null, DateOf(now)))
    ELSE Some(Record(matches[1], queryIPLocation(matches[1][1], up), DateOf(now)))

\* parseNginxLog, lines 43-143, called at time now: the record, or null for
\* a line that the regex rejects (lines 47-50)
parseNginxLog(line, up, now) ==
  LET matches == Match(line) IN
  IF matches = Null THEN Null
  ELSE Some(Record(matches[1], queryIPLocation(matches[1][1], up), DateOf(now)))

\* readAllLogs, lines 159-162, on the lines of one file: the records of the
\* lines that parse, in line order
RECURSIVE parsedLogs(_, _)
parsedLogs(lines, now) ==
  IF lines = <<>> THEN <<>>
  ELSE parseNginxLog(Head(lines), TRUE, now) \o parsedLogs(Tail(lines), now)

\* The lines of the parser: a well-formed line is cut in fields, and each
\* field has variants, the first the well-formed one. Of a variant: its text;
\* five, whether the element of the minimal shape it belongs to (origin,
\* bracketed timestamp, quoted request, status, byte count) is still there;
\* shape, whether the line still has the form the regex asks for; stamp,
\* whether the timestamp is still a date, a time and a zone; val, the number
\* a field of the timestamp denotes (the offset in minutes for the zone).
V(text, five, shape, stamp, val) ==
  [text |-> text, five |-> five, shape |-> shape, stamp |-> stamp, val |-> val]
LineFields ==
  << \* 1: origin
     <<V("1.1.1.1", TRUE, TRUE, TRUE, 0), V("", FALSE, FALSE, TRUE, 0),
       V(" 1.1.1.1", TRUE, FALSE, TRUE, 0)>>,
     \* 2: identity and user
     <<V(" - - ", TRUE, TRUE, TRUE, 0), V(" ", TRUE, FALSE, TRUE, 0),
       V(" - alice ", TRUE, TRUE, TRUE, 0), V(" - ", TRUE, FALSE, TRUE, 0),
       V(" - -  ", TRUE, FALSE, TRUE, 0)>>,
     \* 3: opening bracket
     <<V("[", TRUE, TRUE, TRUE, 0), V("", FALSE, FALSE, TRUE, 0)>>,
     \* 4: day
     <<V("10", TRUE, TRUE, TRUE, 10), V("5", TRUE, TRUE, TRUE, 5),
       V("", TRUE, TRUE, FALSE, 0), V("1a", TRUE, TRUE, FALSE, 0)>>,
     \* 5: month
     <<V("/Oct/", TRUE, TRUE, TRUE, 10), V("/Feb/", TRUE, TRUE, TRUE, 2),
       V("/Foo/", TRUE, TRUE, FALSE, 0), V("//", TRUE, TRUE, FALSE, 0)>>,
     \* 6: year
     <<V("2024", TRUE, TRUE, TRUE, 2024), V("1999", TRUE, TRUE, TRUE, 1999),
       V("", TRUE, TRUE, FALSE, 0), V("20x4", TRUE, TRUE, FALSE, 0)>>,
     \* 7: hour
     <<V(":13", TRUE, TRUE, TRUE, 13), V(":00", TRUE, TRUE, TRUE, 0),
       V(":23", TRUE, TRUE, TRUE, 23), V(":", TRUE, TRUE, FALSE, 0),
       V(":1x", TRUE, TRUE, FALSE, 0)>>,
     \* 8: minute
     <<V(":55", TRUE, TRUE, TRUE, 55), V(":", TRUE, TRUE, FALSE, 0),
       V(":5x", TRUE, TRUE, FALSE, 0)>>,
     \* 9: second
     <<V(":36", TRUE, TRUE, TRUE, 36), V("", TRUE, TRUE, FALSE, 0),
       V(":xx", TRUE, TRUE, FALSE, 0)>>,
     \* 10: zone
     <<V(" +0000", TRUE, TRUE, TRUE, 0), V(" +0800", TRUE, TRUE, TRUE, 480),
       V(" -0530", TRUE, TRUE, TRUE, -330), V("", TRUE, TRUE, FALSE, 0)>>,
     \* 11: closing bracket
     <<V("] ", TRUE, TRUE, TRUE, 0), V(" ", FALSE, FALSE, TRUE, 0)>>,
     \* 12: request
     <<V("\"GET /a?x=1 HTTP/1.1\" ", TRUE, TRUE, TRUE, 0), V("\"\" ", TRUE, TRUE, TRUE, 0),
       V("GET /a ", FALSE, FALSE, TRUE, 0),
       V("\"GET ?x=1 HTTP/1.1\" ", TRUE, TRUE, TRUE, 0),
       V("\"GET /b#top HTTP/1.1\" ", TRUE, TRUE, TRUE, 0)>>,
     \* 13: status
     <<V("200 ", TRUE, TRUE, TRUE, 0), V("abc ", FALSE, FALSE, TRUE, 0),
       V("", FALSE, FALSE, TRUE, 0)>>,
     \* 14: byte count
     <<V("512", TRUE, TRUE, TRUE, 0), V("-", FALSE, FALSE, TRUE, 0)>>,
     \* 15: referer and user agent
     <<V("", TRUE, TRUE, TRUE, 0),
       V(" \"https://www.google.com/\" \"Mozilla/5.0\"", TRUE, TRUE, TRUE, 0),
       V(" \"-\"", TRUE, TRUE, TRUE, 0)>> >>

\* the choices of one variant per field, at most MaxFaults fields not in
\* their first variant
LineChoices ==
  UNION { { [f \in 1..Len(LineFields) |-> IF f \in S THEN v[f] ELSE 1] :
              v \in {w \in [S -> 2..5] : \A f \in S : w[f] <= Len(LineFields[f])} } :
          S \in {T \in SUBSET (1..Len(LineFields)) : Cardinality(T) <= MaxFaults} }
Chosen(c, f) == LineFields[f][c[f]]
RECURSIVE LineOf(_, _)
LineOf(c, f) == IF f > Len(LineFields) THEN "" ELSE Chosen(c, f).text \o LineOf(c, f + 1)

\* the times at which the parser is called
Nows == {0, TickMs + 1234}

\* a call of parseNginxLog(parse.line) at time now, the resolver up or not
ParseLine(up, now) ==
  /\ parse.pc = "input"
  /\ Len(parse.calls) < MaxParses
  /\ parse' = [parse EXCEPT !.calls = Append(@, [up |-> up, now |-> now,
                                                 result |-> parseNginxLog(parse.line, up, now)])]
  /\ UNCHANGED <<ipdbVars, request, sample, dash>>

\* GET /api/metrics, lines 172-375, once readAllLogs returned
GetMetrics ==
  /\ request.pc = "pending"
  /\ request' =
       IF Len(request.logs) = 0
         THEN [request EXCEPT !.pc = "metrics", !.status = Outcome(request.logs)]
         ELSE LET m == MetricsEach([sources |-> ZeroSources, devices |-> ZeroDevices],
                                   request.logs, 1) IN
              [request EXCEPT !.pc = "metrics", !.status = Outcome(request.logs),
                              !.totalVisits = Len(request.logs),
                              !.provinces = metricsProvinces(request.logs),
                              !.sources = m.sources, !.devices = m.devices]
  /\ UNCHANGED <<ipdbVars, sample, parse, dash>>

\* GET /api/traffic, lines 377-589, once readAllLogs returned
GetTraffic(tz) ==
  /\ request.pc = "pending"
  /\ request' =
       IF Len(request.logs) = 0
         THEN [request EXCEPT !.pc = "traffic", !.status = Outcome(request.logs)]
         ELSE LET sorted == sortedLogs(request.logs)
                  t == TrafficEach([sources |-> ZeroSources, devices |-> ZeroDevices],
                                   sorted, 1) IN
              [request EXCEPT !.pc = "traffic", !.status = Outcome(request.logs),
                              !.tz = tz,
                              !.hourly = hourlyData(<<>>, sorted, 1, tz),
                              !.provinces = provinces(sorted),
                              !.sources = t.sources, !.devices = t.devices]
  /\ UNCHANGED <<ipdbVars, sample, parse, dash>>

\* the body of the loop of /api/metrics on one record, from zero tallies
CountMetrics ==
  /\ sample.pc = "input"
  /\ sample' = [sample EXCEPT !.pc = "metrics",
                              !.sources = MetricsSource(ZeroSources, sample.log),
                              !.devices = MetricsDevice(ZeroDevices, sample.log)]
  /\ UNCHANGED <<ipdbVars, request, parse, dash>>

\* the body of the loop of /api/traffic on one record, from zero tallies
CountTraffic ==
  /\ sample.pc = "input"
  /\ sample' = [sample EXCEPT !.pc = "traffic",
                              !.sources = TrafficSource(ZeroSources, sample.log),
                              !.devices = TrafficDevice(ZeroDevices, sample.log)]
  /\ UNCHANGED <<ipdbVars, request, parse, dash>>

IpdbNext ==
  \/ StartupValidate
  \/ \E p \in Procs : EMkdir(p)
  \/ \E p \in Procs : ECheck(p)
  \/ \E p \in Procs, done \in SUBSET AllEditions : DFetch(p, done)
  \/ \E p \in Procs, ioOk \in BOOLEAN : Open(p, ioOk)
  \/ \E p \in Procs : Assign(p)
  \/ Publish
  \/ \E headOk \in SUBSET AllEditions : RefreshFire(headOk)
  \/ PassStart
  \/ \E endpoint \in Endpoints : PassSkip(endpoint)
  \/ \E lines \in LineSeqs : PassRead(lines)
  \/ \E endpoint \in Endpoints : PassJoin(endpoint)

vars == <<ipdbVars, aggVars>>
Init == IpdbInit /\ AggIdle
Next == IpdbNext
Spec == Init /\ [][Next]_vars

\* every pending continuation runs once its I/O completes; requests, the
\* weekly tick and new remote databases are up to the environment
Fairness ==
  /\ WF_vars(StartupValidate)
  /\ \A p \in Procs : WF_vars(EMkdir(p))
  /\ \A p \in Procs : WF_vars(ECheck(p))
  /\ \A p \in Procs : WF_vars(\E done \in SUBSET AllEditions : DFetch(p, done))
  /\ \A p \in Procs : WF_vars(\E ioOk \in BOOLEAN : Open(p, ioOk))
  /\ \A p \in Procs : WF_vars(Assign(p))
  /\ WF_vars((\E endpoint \in Endpoints : PassSkip(endpoint))
             \/ \E lines \in LineSeqs : PassRead(lines))
  /\ WF_vars(\E endpoint \in Endpoints : PassJoin(endpoint))
FairSpec == Init /\ [][Next]_vars /\ Fairness

\* the server started with every database in place, the weekly job never
\* due, and time passing
ServerUp ==
  /\ IpdbInit
  /\ geoipConfig = [accountId |-> TRUE, licenseKey |-> TRUE, editionIds |-> AllEditions]
  /\ file = [e \in AllEditions |-> FOk]
TtlInit == ServerUp /\ AggIdle
TtlNext ==
  \/ StartupValidate
  \/ \E p \in Procs : EMkdir(p)
  \/ \E p \in Procs : ECheck(p)
  \/ \E p \in Procs, ioOk \in BOOLEAN : Open(p, ioOk)
  \/ \E p \in Procs : Assign(p)
  \/ PassStart
  \/ \E endpoint \in Endpoints : PassSkip(endpoint)
  \/ \E lines \in LineSeqs : PassRead(lines)
  \/ \E endpoint \in Endpoints : PassJoin(endpoint)
  \/ Tick
SpecTtl == TtlInit /\ [][TtlNext]_vars

\* a request on the records of a pass over the lines of LogFiles
AggInit ==
  /\ ServerUp
  /\ sample = NoSample
  /\ parse = NoParse
  /\ dash = NoDash
  /\ request \in {[NoRequest EXCEPT !.pc = "pending", !.lines = ls,
                                    !.logs = parsedLogs(ls, clock)] :
                  ls \in LogFiles}
AggNext == GetMetrics \/ \E tz \in TimezoneOffsets : GetTraffic(tz)
SpecAgg == AggInit /\ [][AggNext]_vars

\* one line of LineChoices, parsed up to MaxParses times
ParseInit ==
  /\ ServerUp
  /\ request = NoRequest
  /\ sample = NoSample
  /\ dash = NoDash
  /\ parse \in {[NoParse EXCEPT !.pc = "input", !.choice = c, !.line = LineOf(c, 1)] :
                c \in LineChoices}
ParseNext == \E up \in BOOLEAN, now \in Nows : ParseLine(up, now)
SpecParse == ParseInit /\ [][ParseNext]_vars

\* one record with a user agent of UserAgents or a referer of Referers
ClassifyInit ==
  /\ ServerUp
  /\ request = NoRequest
  /\ parse = NoParse
  /\ dash = NoDash
  /\ sample \in {[NoSample EXCEPT !.pc = "input", !.log.userAgent = ua] : ua \in UserAgents}
           \cup {[NoSample EXCEPT !.pc = "input", !.log.referer = r] : r \in Referers}
ClassifyNext == CountMetrics \/ CountTraffic
SpecClassify == ClassifyInit /\ [][ClassifyNext]_vars

\* the dashboard is mounted and loads its data up to MaxLoads times
DashInit ==
  /\ ServerUp
  /\ request = NoRequest
  /\ sample = NoSample
  /\ parse = NoParse
  /\ dash = NoDash
DashNext ==
  \/ LoadData
  \/ \E x \in Fetches, outcome \in Outcomes : Settle(x, outcome)
  \/ \E x \in Fetches : RetryFire(x)
SpecDash == DashInit /\ [][DashNext]_vars

\* ------------------------------------------------------------ claims
InitFinished == proc[STARTUP].pc \in {"ready", "failed"}

\* C1: started with a configured edition missing or unreadable, initIPDB
\* eventually finishes (it succeeds or it fails): ensureIPDBDir and
\* downloadIPDB do not call each other forever.
C1_InitEventuallyFinishes ==
  (ConfigValid /\ MissingFiles # {}) => <>InitFinished

\* C2: every ingestion pass that started eventually returns its records,
\* also when the database file is missing or cannot be opened.
C2_PassEventuallyReturns == (pass.pc = "read") ~> (pass.pc = "done")

\* a slot whose call found the handle absent and is still in initDBInstance
InInitDB(q) == proc[q].pc \in {"E_mkdir", "E_check", "D_fetch", "open", "assign"}

\* the step in which readAllLogs hands the lines of a file to the resolver
IsPassRead == pass.pc = "read" /\ pass'.pc = "join"
Age(ip) == clock - ipCache[ip][1].timestamp

\* C3: a lookup of an origin whose cache entry is younger than 24 hours
\* returns that entry's location and does not query the database; a lookup
\* at an age of 24 hours or more goes to the database and is not answered
\* from the cache.
C3_Lookup(q) ==
  LET ip == proc'[q].ip IN
  (IsPassRead /\ ip \in IPs /\ ipCache[ip] # Null) =>
     IF Age(ip) < 24 * 60 * 60 * 1000
       THEN /\ proc'[q].pc = "done"
            /\ proc'[q].result = Some(ipCache[ip][1].data)
            /\ ~proc'[q].queried
       ELSE proc'[q].queried \/ InInitDB(q)'
C3_CacheTtl == [][\A q \in Slots : C3_Lookup(q)]_vars

\* a lookup was answered from the cache after time had passed
C3_Witness ==
  \E q \in Slots : /\ proc[q].pc = "done"
                   /\ proc[q].result # Null
                   /\ ~proc[q].queried
                   /\ clock > 0

\* a lookup of a cached origin went to the database again after 24 hours
C3_WitnessStale ==
  \E q \in Slots : /\ proc[q].pc = "done"
                   /\ proc[q].queried
                   /\ proc[q].now >= 24 * 60 * 60 * 1000
                   /\ ipCache[proc[q].ip] # Null
                   /\ ipCache[proc[q].ip][1].timestamp = proc[q].now

OldEntries == {ip \in IPs : ipCache[ip] # Null /\ ipCache[ip][1].db = Old}

\* C4: once the swap that follows a replacement of the database file has
\* finished, the cache holds no location computed from an old handle.
C4_NoOldEntryAfterSwap == swapDone => OldEntries = {}

\* C5: once dbInstance has been opened, it is never absent again.
C5_HandleNeverAbsent == [][dbInstance # Null => dbInstance' # Null]_vars

\* the job ends in its catch block
RefreshFails ==
  /\ proc[REFRESH].pc \in {"E_mkdir", "E_check", "D_fetch", "open"}
  /\ proc'[REFRESH].pc = "idle"

\* C6: when a scheduled refresh fails, the handle that was active before it
\* is the active handle afterwards.
C6_FailedRefreshKeepsHandle ==
  [][(RefreshFails /\ proc[REFRESH].prev # Null) =>
       /\ dbInstance' # Null
       /\ dbInstance' \in {proc[REFRESH].prev, Some(Old)}]_vars

SourcesSum(s) == s.direct + s.search + s.social + s.referral
DevicesSum(d) == d.bot + d.tablet + d.mobile + d.desktop + d.other
RECURSIVE HourlySum(_)
HourlySum(h) == IF h = <<>> THEN 0 ELSE Head(h).count + HourlySum(Tail(h))

\* C8: in every response with aggregates the source counts sum to the number
\* of records, the device counts sum to the number of records, and (for
\* /api/traffic) the hourly bucket counts sum to the number of records.
C8_TotalsConserved ==
  request.status = 200 =>
    /\ SourcesSum(request.sources) = Len(request.logs)
    /\ DevicesSum(request.devices) = Len(request.logs)
    /\ request.pc = "metrics" => request.totalVisits = Len(request.logs)
    /\ request.pc = "traffic" => HourlySum(request.hourly) = Len(request.logs)

\* /api/traffic answered for three or more records in several hours, one of
\* them with a malformed timestamp
C8_Witness ==
  /\ request.pc = "traffic"
  /\ request.status = 200
  /\ Len(request.logs) >= 3
  /\ \E i \in 1..Len(request.logs) : request.logs[i].timestamp = toISOString(DateOf(clock))
  /\ Len(request.hourly) >= 2
  /\ request.sources.search >= 1
  /\ request.devices.tablet >= 1

\* the record of sample has been counted by one of the two loops
Counted == sample.pc \in {"metrics", "traffic"}
\* tally counts one in class c and nothing in the other classes
CountedAs(tally, classes, c) == tally[c] = 1 /\ \A o \in classes \ {c} : tally[o] = 0
Has(s, tokens) == \E t \in tokens : Includes(s, t)

DeviceClasses == {"bot", "tablet", "mobile", "desktop", "other"}
BotTokens == {"bot", "spider", "crawler", "slurp", "python-requests", "go-http-client",
              "censysinspect"}
TabletTokens == {"ipad", "tablet", "kindle", "playbook"}
MobileTokens == {"iphone", "ipod", "mobile", "windows phone", "blackberry", "webos"}
DesktopTokens == {"windows", "macintosh", "x11", "linux", "ubuntu", "firefox", "chrome"}
LowerUA == toLowerCase(sample.log.userAgent)
AndroidMobile == Includes(LowerUA, "android") /\ Includes(LowerUA, "mobile")

\* the first class, in the order bot, tablet, mobile, desktop, other, whose
\* tokens the lower-cased user agent contains
ExpectedDevice ==
  IF Has(LowerUA, BotTokens) THEN "bot"
  ELSE IF Has(LowerUA, TabletTokens)
          \/ (Includes(LowerUA, "android") /\ ~Includes(LowerUA, "mobile")) THEN "tablet"
  ELSE IF Has(LowerUA, MobileTokens) THEN "mobile"
  ELSE IF Has(LowerUA, DesktopTokens) THEN "desktop"
  ELSE "other"

\* C9 as stated: every user agent is counted in exactly one class, and one
\* that contains "android" and "mobile" and no bot token is counted mobile.
C9_AndroidMobileAlwaysMobile ==
  Counted =>
    /\ \E c \in DeviceClasses : CountedAs(sample.devices, DeviceClasses, c)
    /\ (AndroidMobile /\ ~Has(LowerUA, BotTokens)) =>
         CountedAs(sample.devices, DeviceClasses, "mobile")

\* C9: every user agent is counted in exactly one class, the first in the
\* order bot, tablet, mobile, desktop, other that matches the lower-cased
\* string; one that contains "android" and "mobile", no bot token and none of
\* "ipad", "tablet", "kindle", "playbook" is counted mobile.
C9_DeviceClassification ==
  Counted =>
    /\ CountedAs(sample.devices, DeviceClasses, ExpectedDevice)
    /\ (AndroidMobile /\ ~Has(LowerUA, BotTokens) /\ ~Has(LowerUA, TabletTokens)) =>
         CountedAs(sample.devices, DeviceClasses, "mobile")

\* a mixed-case user agent with "android" and "mobile", a desktop token and
\* no bot or tablet token was counted mobile
C9_Witness ==
  /\ Counted
  /\ AndroidMobile
  /\ Has(LowerUA, DesktopTokens)
  /\ ~Has(LowerUA, BotTokens)
  /\ ~Has(LowerUA, TabletTokens)
  /\ Includes(sample.log.userAgent, "Android")
  /\ sample.devices.mobile = 1

SourceClasses == {"direct", "search", "social", "referral"}
Engines == {"google", "bing", "baidu", "sogou", "so"}
SearchTokens == {"google.", "bing.", "baidu.", "sogou.", "so.com"}
SocialTokens == {"facebook.", "twitter.", "weibo."}
ExpectedSource ==
  LET referer == sample.log.referer IN
  IF referer \in {"", "-"} THEN "direct"
  ELSE IF Has(referer, SearchTokens) THEN "search"
  ELSE IF Has(referer, SocialTokens) THEN "social"
  ELSE "referral"

\* C10: every referer is counted in exactly one source, the first of direct
\* (empty or "-"), search, social, referral that applies; a referer with a
\* search-engine substring and a social substring is counted search and adds
\* one to exactly one search-engine tally; no other source touches them.
C10_SourceClassification ==
  Counted =>
    /\ CountedAs(sample.sources, SourceClasses, ExpectedSource)
    /\ (Has(sample.log.referer, SearchTokens) /\ Has(sample.log.referer, SocialTokens)) =>
         /\ sample.sources.search = 1
         /\ \E e \in Engines : CountedAs(sample.sources.searchEngines, Engines, e)
    /\ sample.sources.search = 0 =>
         \A e \in Engines : sample.sources.searchEngines[e] = 0

\* a referer with a search-engine substring and a social substring was
\* counted
C10_Witness ==
  /\ Counted
  /\ Has(sample.log.referer, SearchTokens)
  /\ Has(sample.log.referer, SocialTokens)
  /\ sample.sources.search = 1

\* C11: a pass that returned no record is answered 404 by both endpoints;
\* no response of the model is 500, and 404 is sent only for an empty
\* record set.
C11_EmptyPassIsNoData ==
  /\ request.status # 500
  /\ request.pc \in Endpoints =>
       (request.status = 404 <=> Len(pass.allLogs) = 0)

\* a pass over two paths, one missing and one without a matching line, was
\* answered 404
C11_Witness ==
  /\ request.pc \in Endpoints
  /\ request.status = 404
  /\ pass.skipped = 1

\* the step of readAllLogs that skips a path, and the one that appends the
\* records of a path
IsPassSkip == pass.pc = "read" /\ pass'.pc \in {"read", "done"} /\ pass' # pass
IsPassJoin == pass.pc = "join" /\ pass'.pc \in {"read", "done"}

\* C12: a path that is missing or unreadable adds no record and keeps the
\* records of the other paths; a path that is read appends its records to
\* those collected before.
C12_MissingPathSkipped ==
  [][/\ IsPassSkip => pass'.allLogs = pass.allLogs
     /\ IsPassJoin =>
           /\ Len(pass'.allLogs) = Len(pass'.expected)
           /\ SubSeq(pass'.allLogs, 1, Len(pass.allLogs)) = pass.allLogs]_vars

\* one path was skipped, the other gave a record, and the pass returned
\* that record
C12_Witness ==
  /\ pass.pc = "done"
  /\ pass.skipped = 1
  /\ Len(pass.allLogs) = 1
  /\ request.status = 200

\* readAllLogs has been called and has not read or skipped a path yet
PassBegins == pass.pc = "read" /\ pass.idx = 1
\* no record of the pass has a location
AllAbsent == \A i \in 1..Len(pass.allLogs) : pass.allLogs[i].ipLocation = Null

\* C17: with an incomplete configuration initIPDB fails before any download
\* or open, and every pass started afterwards returns, with no location on
\* any record.
C17_MisconfiguredPassCompletes ==
  (~ConfigValid) =>
     /\ [](proc[STARTUP].pc \in {"validate", "failed"})
     /\ []((proc[STARTUP].pc = "failed" /\ PassBegins) =>
            <>(pass.pc = "done" /\ AllAbsent))

\* C20: a response is computed only when every lookup of every path of the
\* pass has settled, from the records of all the matching lines read.
C20_AggregatesCompleteSet ==
  request.pc \in Endpoints =>
    /\ pass.pc = "done"
    /\ \A q \in Slots : proc[q].pc = "idle"
    /\ Len(request.logs) = Len(pass.expected)
    /\ \A i \in 1..Len(request.logs) : request.logs[i].ip = pass.expected[i]

\* a response was computed from the records of both paths, one lookup of
\* which had to open the database first
C20_Witness ==
  /\ request.pc \in Endpoints
  /\ Len(request.logs) = 2
  /\ \E i \in 1..2 : request.logs[i].ipLocation # Null

\* the date and the hour of a bucket key "yyyy-MM-dd HH:00", to compare keys
KeyOrder(hour) ==
  <<ToNat(SubSeq(hour, 1, 4) \o SubSeq(hour, 6, 7) \o SubSeq(hour, 9, 10)),
    ToNat(SubSeq(hour, 12, 13))>>
\* the hour, in the time zone of the response, of record i of the request
HourOf(i) == format(DateParse(request.logs[i].timestamp), request.tz)

\* C19: the hourly series of /api/traffic has one bucket for each hour in
\* which a record falls, counting the records of that hour (so no bucket is
\* empty), no two buckets have the same key, and the keys ascend, whatever
\* the order of the records read.
C19_HourlyBuckets ==
  (request.pc = "traffic" /\ request.status = 200) =>
    LET hourly == request.hourly IN
    /\ \A i \in 1..Len(request.logs) : \E k \in 1..Len(hourly) : hourly[k].hour = HourOf(i)
    /\ \A k \in 1..Len(hourly) :
         /\ hourly[k].count >= 1
         /\ hourly[k].count =
              Cardinality({i \in 1..Len(request.logs) : HourOf(i) = hourly[k].hour})
    /\ \A k, l \in 1..Len(hourly) :
         k < l => Earlier(KeyOrder(hourly[k].hour), KeyOrder(hourly[l].hour))

\* /api/traffic answered for records read in descending order of time that
\* fall in two or more hours, two of them in the same hour
C19_Witness ==
  /\ request.pc = "traffic"
  /\ request.status = 200
  /\ Len(request.logs) = 3
  /\ Earlier(DateParse(request.logs[3].timestamp), DateParse(request.logs[2].timestamp))
  /\ Earlier(DateParse(request.logs[2].timestamp), DateParse(request.logs[1].timestamp))
  /\ Len(request.hourly) = 2
  /\ request.tz # 0

\* the records of the request whose location has a region name
Resolved == {i \in 1..Len(request.logs) :
               /\ request.logs[i].ipLocation # Null
               /\ request.logs[i].ipLocation[1].region # ""}
RECURSIVE CountSum(_)
CountSum(ps) == IF ps = <<>> THEN 0 ELSE Head(ps).count + CountSum(Tail(ps))

\* C18: in the geographic distribution of /api/traffic the region counts sum
\* to the number of records whose location has a region name: a record
\* without a location, or with a location without a region, is counted under
\* no region.
C18_GeoCountsResolvedRegions ==
  (request.pc = "traffic" /\ request.status = 200) =>
    CountSum(request.provinces) = Cardinality(Resolved)

\* the line parsed has the five elements of the minimal shape, in order
HasFive == \A f \in 1..Len(LineFields) : Chosen(parse.choice, f).five
\* the line parsed has the form of the regex
HasShape == \A f \in 1..Len(LineFields) : Chosen(parse.choice, f).shape
\* the timestamp of the line parsed is DD/Mon/YYYY:HH:MM:SS +ZZZZ with a
\* month of the table
StampOk == \A f \in 1..Len(LineFields) : Chosen(parse.choice, f).stamp
\* the instant that the fields of the timestamp of the line parsed denote
Denoted ==
  LET val(f) == Chosen(parse.choice, f).val IN
  MakeDate(MakeDay(val(6), val(5), val(4)),
           ((val(7) * 60 + val(8) - val(10)) * 60 + val(9)) * 1000)
Calls == 1..Len(parse.calls)

\* C13 as stated: parseNginxLog returns a record exactly for the lines that
\* contain, in this order, an origin token, a bracketed timestamp, a quoted
\* request string, a numeric status and a numeric byte count.
C13_RecordIffFiveElements ==
  \A k \in Calls : parse.calls[k].result # Null <=> HasFive

\* C13 amended: parseNginxLog returns a record exactly for the lines that
\* start with an origin token, two further tokens, a bracketed timestamp, a
\* quoted request string, a numeric status and a numeric byte count, each
\* separated from the next by one space.
C13_RecordIffRegexShape ==
  \A k \in Calls : parse.calls[k].result # Null <=> HasShape

\* a line with the five elements but without the two tokens between origin
\* and timestamp was parsed, and gave no record
C13_Witness ==
  /\ parse.calls # <<>>
  /\ parse.choice[2] = 2
  /\ HasFive
  /\ parse.calls[1].result = Null

\* C14 as stated: every call of parseNginxLog on the same line returns the
\* same record, whatever the time of the call and the state of the resolver.
C14_SameRecordTwice ==
  \A j, k \in Calls : parse.calls[j].result = parse.calls[k].result

\* C14 amended: every call of parseNginxLog on the same line returns a record
\* or none alike, and the records have the same origin, method, path, status,
\* byte count, referer and user agent, and the same timestamp when the
\* timestamp of the line is well-formed; a malformed timestamp is replaced by
\* the time of each call, and the location is what the resolver returns at
\* the time of each call.
C14_SameParsedFieldsTwice ==
  \A j, k \in Calls :
    LET a == parse.calls[j]
        b == parse.calls[k] IN
    /\ a.result = Null <=> b.result = Null
    /\ a.result # Null =>
         /\ \A fld \in {"ip", "method", "path", "status", "bytes", "referer", "userAgent"} :
              a.result[1][fld] = b.result[1][fld]
         /\ StampOk => a.result[1].timestamp = b.result[1].timestamp
         /\ ~StampOk => a.result[1].timestamp = toISOString(DateOf(a.now))
         /\ a.result[1].ipLocation = queryIPLocation(a.result[1].ip, a.up)

\* the same line was parsed twice, at different times and with the resolver
\* once down and once up: the records differ in timestamp and location
C14_Witness ==
  /\ Len(parse.calls) = 2
  /\ parse.calls[1].result # Null
  /\ parse.calls[1].result[1].timestamp # parse.calls[2].result[1].timestamp
  /\ parse.calls[1].result[1].ipLocation = Null
  /\ parse.calls[2].result[1].ipLocation # Null
  /\ parse.calls[1].result[1].path = "/a"

ReadBack(iso) ==
  [year |-> ToNat(SubSeq(iso, 1, 4)), month |-> ToNat(SubSeq(iso, 6, 7)),
   date |-> ToNat(SubSeq(iso, 9, 10)), hour |-> ToNat(SubSeq(iso, 12, 13)),
   minute |-> ToNat(SubSeq(iso, 15, 16)), second |-> ToNat(SubSeq(iso, 18, 19)),
   offset |-> Offset(SubSeq(iso, 24, Len(iso)))[1]]
\* the calendar date, the time of day and the offset written in the line
Written ==
  LET val(f) == Chosen(parse.choice, f).val IN
  [year |-> val(6), month |-> val(5), date |-> val(4), hour |-> val(7),
   minute |-> val(8), second |-> val(9), offset |-> val(10)]

\* C16 as stated: the result of parseTimestamp for a well-formed timestamp
\* does not depend on the time of the call and converts back to the calendar
\* date, the time of day and the offset of the input.
C16_RoundTripsDateTimeOffset ==
  \A j, k \in Calls :
    (StampOk /\ parse.calls[k].result # Null) =>
      /\ parse.calls[j].result[1].timestamp = parse.calls[k].result[1].timestamp
      /\ ReadBack(parse.calls[k].result[1].timestamp) = Written

\* C16 amended: the result of parseTimestamp for a well-formed timestamp does
\* not depend on the time of the call and converts back to the instant of
\* the input; it is written in UTC, whatever the offset of the input.
C16_RoundTripsInstant ==
  \A j, k \in Calls :
    (StampOk /\ parse.calls[k].result # Null) =>
      /\ parse.calls[j].result[1].timestamp = parse.calls[k].result[1].timestamp
      /\ DateParse(parse.calls[k].result[1].timestamp) = Denoted
      /\ ReadBack(parse.calls[k].result[1].timestamp).offset = 0

\* a timestamp of offset -0530 was normalized twice at different times: the
\* result is on the next calendar day in UTC
C16_Witness ==
  /\ Len(parse.calls) = 2
  /\ parse.calls[1].now # parse.calls[2].now
  /\ StampOk
  /\ parse.choice[10] = 3
  /\ parse.calls[2].result # Null
  /\ parse.calls[2].result[1].timestamp = "2024-10-10T19:25:36.000Z"

\* the download of the refresh job put a new file of IPDB_FILE in place and
\* the job ended in its catch block in the same step
RefreshDropsFetched ==
  /\ proc[REFRESH].pc = "D_fetch"
  /\ proc[REFRESH].ctx = "download"
  /\ IPDB_FILE \in remote
  /\ IPDB_FILE \notin remote'
  /\ proc'[REFRESH].pc = "idle"

\* C21: when the fetch of another edition fails in a refresh, the edition
\* whose fetch succeeded is still activated: the job does not end at the
\* download but goes on to reopen the handle and to clear the cache.
C21_FetchedEditionActivated == [][~RefreshDropsFetched]_vars

\* C22: a lookup that asked the database about an origin it does not list
\* has stored the unknown outcome in the cache with the instant of the call.
C22_UnknownOutcomeCached ==
  \A q \in Slots :
    (proc[q].pc = "done" /\ proc[q].queried /\ proc[q].result = Null) =>
      /\ ipCache[proc[q].ip] # Null
      /\ ipCache[proc[q].ip][1].timestamp = proc[q].now

\* C23: readers see the old handle with the old cache or the new handle
\* with the emptied cache: while the handle of the file in place is the
\* active dbInstance, the cache holds no entry computed from an older
\* handle, and no lookup is answered from such an entry.
C23_SwapAtomicForReaders ==
  /\ dbInstance = Some(Cur) => OldEntries = {}
  /\ \A q \in Slots :
       (dbInstance = Some(Cur) /\ proc[q].pc = "done" /\ ~proc[q].queried
          /\ proc[q].result # Null) =>
         proc[q].ip \notin OldEntries

\* no configured edition is missing locally or newer at the remote
NoneNewer ==
  \A e \in geoipConfig.editionIds : file[e] # FMissing /\ e \notin remote

\* C24: while no edition is newer at the remote than the local file, the
\* refresh job that comes due starts no download, does not discard the
\* active handle and leaves every cache entry in place.
C24_CurrentRefreshChangesNothing ==
  [][(scheduled /\ proc[REFRESH].pc = "idle" /\ NoneNewer) =>
       /\ proc'[REFRESH] = proc[REFRESH]
       /\ dbInstance # Null => dbInstance' # Null
       /\ \A ip \in IPs : ipCache[ip] # Null => ipCache'[ip] # Null]_vars

\* the job is due after an earlier swap, nothing is newer, the handle is
\* open and the cache holds a location
C24_Witness ==
  /\ scheduled
  /\ swapDone
  /\ proc[REFRESH].pc = "idle"
  /\ NoneNewer
  /\ dbInstance # Null
  /\ \E ip \in IPs : ipCache[ip] # Null

\* a call's maxmind.open(IPDB_FILE) returned a handle
Opens(p) == proc[p].pc = "open" /\ proc'[p].pc = "assign"

\* C26: while no swap occurs the database file is opened at most once: a
\* call opens it only when no handle is active and no other call has opened
\* it already.
C26_OpenedAtMostOnce ==
  [][\A p \in Procs :
       Opens(p) => /\ dbInstance = Null
                   /\ \A q \in Procs \ {p} : proc[q].pc # "assign"]_vars

\* C27: the weekly job is scheduled only in the step in which initIPDB
\* completes successfully, hence at most once, and never when initIPDB
\* fails.
C27_ScheduledOnlyAfterInit ==
  [][/\ scheduled' => proc'[STARTUP].pc = "ready"
     /\ scheduled' # scheduled => (scheduled' /\ proc[STARTUP].pc # "ready")]_vars

\* initIPDB failed, requests were served afterwards, and no job is scheduled
C27_Witness ==
  /\ proc[STARTUP].pc = "failed"
  /\ pass.pc = "done"
  /\ ~scheduled

\* the request target in each variant of the request field of LineFields
Targets == <<"/a?x=1", "", "/a", "?x=1", "/b#top">>
Target == Targets[parse.choice[12]]

\* what precedes the first "?" or "#" of a target
BeforeQuery(t) ==
  CHOOSE s \in {SubSeq(t, 1, n) : n \in 0..Len(t)} :
    /\ ~Includes(s, "?") /\ ~Includes(s, "#")
    /\ Len(s) = Len(t) \/ At(t, Len(s) + 1) \in {"?", "#"}

\* C25: the path of a record is the request target cut before its first "?"
\* or "#": it holds no query string and no fragment, also when the target
\* is nothing but a query string.
C25_PathWithoutQuery ==
  \A k \in Calls :
    (parse.calls[k].result # Null /\ Target # "") =>
      LET path == parse.calls[k].result[1].path IN
      /\ ~Includes(path, "?")
      /\ ~Includes(path, "#")
      /\ path = BeforeQuery(Target)

\* a geographic distribution without the order of its entries
GeoSet(ps) ==
  {[name |-> ps[k].name, count |-> ps[k].count,
    cities |-> {ps[k].cities[j] : j \in 1..Len(ps[k].cities)}] : k \in 1..Len(ps)}

\* C28: the geographic distribution that one endpoint returned for a record
\* set has the regions, region counts and city counts of the distribution
\* that the other endpoint computes for the same records.
C28_SameGeoDistribution ==
  (request.pc \in {"metrics", "traffic"} /\ request.status = 200) =>
    GeoSet(request.provinces) =
      GeoSet(IF request.pc = "metrics" THEN provinces(sortedLogs(request.logs))
             ELSE metricsProvinces(request.logs))

\* C29: a fetch started with retryCount 0 issues at most 4 requests: after
\* a failed attempt n < 3 one retry is scheduled after n + 1 seconds, after
\* the fourth failure none, and after a success none.
C29_AtMostFourRequests ==
  \A x \in Fetches :
    LET r == dash.fetch[x] IN
    /\ r.requests <= 4
    /\ r.pc # "none" => r.requests = r.retryCount + 1
    /\ r.pc = "timer" => /\ r.last = "failed"
                         /\ r.retryCount \in 0..2
                         /\ r.delay = 1000 * (r.retryCount + 1)
    /\ r.pc = "done" => (r.last = "ok" \/ r.retryCount = 3)

\* a fetch ended after its fourth request failed
C29_Witness ==
  \E x \in Fetches : /\ dash.fetch[x].pc = "done"
                     /\ dash.fetch[x].last = "failed"
                     /\ dash.fetch[x].requests = 4

\* C30: whenever loading is false and the latest attempt of a fetch failed,
\* error is not null: the success of the other fetch does not clear it.
C30_ErrorKeptWhileFailed ==
  (~dash.loading /\ \E x \in Fetches : dash.fetch[x].last = "failed") =>
    dash.error # Null
====
